---- MODULE Spec2Model ----
(***************************************************************************)
(* Model of the asset-selector HTTP API client: the response normalizer,   *)
(* the network calls and the configuration manager (js/config.js), the     *)
(* JWT token issuer (js/token-generator.js), the selection of the asset    *)
(* selector (js/asset-selector.js), the settings page (js/utils.js) and    *)
(* the development server (server/server.js).                              *)
(*                                                                         *)
(* Strings whose characters the code inspects are sequences: a metadata    *)
(* key is a sequence of tokens (a word without ':' or the token ":"), a    *)
(* scope string and a PEM text are sequences of characters.                *)
(***************************************************************************)
EXTENDS Integers, Sequences, FiniteSets, TLC

VARIABLES
    pc,         \* position of the call being modelled
    metaIn,     \* normalizeMetadataSchema: Object.entries(response)
    schema,     \* normalizeMetadataSchema: the schema being returned
    listIn,     \* normalizeListResponse: the response payload
    listOut,    \* normalizeListResponse: what the call returned or threw
    caller,     \* token issuance: who composes the two stages
    cred,       \* token issuance: the credentials given
    nowMs,      \* token issuance: Date.now() when the payload is built
    payload,    \* generateJWT: the JWT payload
    attempts,   \* importPrivateKey: the crypto.subtle.importKey calls made
    jwt,        \* the signed assertion, once there is one
    requests,   \* the fetch calls made
    relayResponse, \* what the relay answered
    raised,     \* the error thrown inside a stage, and the stage
    outcome,    \* what the caller of the issuance gets
    entityIn,   \* normalizeAsset: the entity
    entityOut,  \* normalizeAsset: what the call returned or threw
    claims,     \* signJWT: the payload object to sign
    signature,  \* signJWT: the bytes crypto.subtle.sign gives
    assertion,  \* signJWT: the assertion text returned
    presented,  \* decodeJWT / isTokenExpired: the text given
    clock,      \* isTokenExpired: Date.now()
    decodeOut,  \* decodeJWT: what the call returned or threw
    expiredOut, \* isTokenExpired: what the call returned
    pkcs1In,    \* convertPKCS1ToPKCS8: the bytes given
    pkcs8Out,   \* convertPKCS1ToPKCS8: the bytes returned
    relayLog,   \* server: the requests handled, with the status answered
    forwarded,  \* server: the requests the relay made upstream
    savedAuth,  \* settings page: the auth section saved to localStorage
    netCall,    \* network call: which call, its timeout, the caller's signal
    netPhase,   \* network call: idle, inflight or done
    netElapsed, \* network call: time since fetch was called
    netCause,   \* network call: what ended the fetch
    callerAborted, \* network call: the caller asked for an abort while in flight
    netOut,     \* network call: what the call returned or threw
    demoCall,   \* listAssets / getMetadata: the call and the configuration
    demoPhase,  \* listAssets / getMetadata: idle, inflight or done
    demoFailure, \* listAssets / getMetadata: the error caught, if any
    demoOut,    \* listAssets / getMetadata: what the call returned or threw
    cfgDefaults, \* ConfigManager: the section objects of DEFAULT_CONFIG
    cfgConfig, \* ConfigManager: this.config, each section the default's object or its own
    cfgStorage, \* ConfigManager: the localStorage item
    cfgBefore, \* ConfigManager: what getConfig gave before the last call
    cfgLastOp, \* ConfigManager: the last call
    cfgHistory, \* ConfigManager: the calls made
    cfgExport,\* ConfigManager: what exportConfig returned
    updRequest, \* update-metadata: the client's request
    updPhase, \* update-metadata: how far the handling is
    updCsrf, \* update-metadata: how the CSRF-token request went
    updPuts, \* update-metadata: the metadata PUTs sent to AEM
    updResponses,\* update-metadata: the responses sent to the client
    selSelected, \* asset selector: this.selectedAssets
    selCallback, \* asset selector: whether a callback is registered with onSelectionChange
    selCalls, \* asset selector: the selections the callback was called with
    selBefore, \* asset selector: the selection before the last operation
    selLastOp, \* asset selector: the last operation and its argument
    selSteps,\* asset selector: the operations made
    fileRequest, \* static files: the path of the request, as segments
    filePhase, \* static files: idle, stat or done
    fileResolved, \* static files: filePath, as segments
    fileResponse \* static files: the response

metaVars == <<metaIn, schema>>
listVars == <<listIn, listOut>>
tokenVars == <<caller, cred, nowMs, payload, attempts, jwt, requests, relayResponse, raised, outcome>>
entityVars == <<entityIn, entityOut>>
codecVars == <<claims, signature, assertion, presented, clock, decodeOut, expiredOut,
               pkcs1In, pkcs8Out>>
relayVars == <<relayLog, forwarded, savedAuth>>
netVars == <<netCall, netPhase, netElapsed, netCause, callerAborted, netOut>>
demoVars == <<demoCall, demoPhase, demoFailure, demoOut>>
cfgVars == <<cfgDefaults, cfgConfig, cfgStorage, cfgBefore, cfgLastOp, cfgHistory, cfgExport>>
updVars == <<updRequest, updPhase, updCsrf, updPuts, updResponses>>
selVars == <<selSelected, selCallback, selCalls, selBefore, selLastOp, selSteps>>
fileVars == <<fileRequest, filePhase, fileResolved, fileResponse>>
laterVars == <<netVars, demoVars, cfgVars, updVars, selVars, fileVars>>
vars == <<pc, metaIn, schema, listIn, listOut, caller, cred, nowMs, payload, attempts, jwt,
          requests, relayResponse, raised, outcome, entityVars, codecVars, relayVars, laterVars>>

(***************************************************************************)
(* Bounds.                                                                 *)
(***************************************************************************)
MaxEntries == 3
MaxList == 2
MaxLinks == 2
MaxScopeLen == 3
MaxPemLen == 4
MaxRequests == 2
MaxHandled == 2
MaxIssLen == 2
MaxSigLen == 2

(***************************************************************************)
(* Generic helpers.                                                        *)
(***************************************************************************)
Range(s) == {s[i] : i \in 1..Len(s)}

\* obj[key] = value on a JS object modelled as a function
Put(obj, key, value) ==
    [x \in (DOMAIN obj) \cup {key} |-> IF x = key THEN value ELSE obj[x]]

EmptyObject == [x \in {} |-> 0]

\* String.prototype.startsWith
StartsWith(s, prefix) ==
    /\ Len(s) >= Len(prefix)
    /\ SubSeq(s, 1, Len(prefix)) = prefix

\* String.prototype.indexOf for a single item, 0-based, -1 when absent
IndexOf(s, c) ==
    IF \E i \in 1..Len(s) : s[i] = c
    THEN (CHOOSE i \in 1..Len(s) : s[i] = c /\ \A j \in 1..(i - 1) : s[j] # c) - 1
    ELSE -1

\* sequences over S of length 0..n
RECURSIVE SeqsUpTo(_, _)
SeqsUpTo(S, n) ==
    IF n = 0 THEN {<<>>}
    ELSE LET shorter == SeqsUpTo(S, n - 1)
         IN shorter \cup {Append(s, x) : s \in {t \in shorter : Len(t) = n - 1}, x \in S}

(***************************************************************************)
(* JavaScript values of a JSON payload.  A string is a sequence of tokens, *)
(* an object a function from property names to values.                     *)
(***************************************************************************)
Undef == [t |-> "undef"]
Null == [t |-> "null"]
Str(s) == [t |-> "str", v |-> s]
Num(n) == [t |-> "num", v |-> n]
List(xs) == [t |-> "list", v |-> xs]
Obj(f) == [t |-> "obj", v |-> f]
Throw(e) == [t |-> "throw", error |-> e]

Nullish(x) == x.t \in {"undef", "null"}

\* ToBoolean
Truthy(x) ==
    CASE x.t \in {"undef", "null"} -> FALSE
      [] x.t = "str" -> x.v # <<>>
      [] x.t = "num" -> x.v # 0
      [] OTHER -> TRUE

\* x.key of a non-nullish x: own property of an object, undefined otherwise
Get(x, key) == IF x.t = "obj" /\ key \in DOMAIN x.v THEN x.v[key] ELSE Undef

\* a || b
Or(a, b) == IF Truthy(a) THEN a ELSE b

\* x?.key
OptGet(x, key) == IF Nullish(x) THEN Undef ELSE Get(x, key)

\* Array.isArray
IsArray(x) == x.t = "list"

\* String(x) inside a template literal, for the value kinds the model uses
ToStringTokens(x) ==
    CASE x.t = "str" -> x.v
      [] x.t = "undef" -> <<"undefined">>
      [] x.t = "null" -> <<"null">>
      [] x.t = "num" -> <<"0">>
      [] x.t = "list" -> <<"[list]">>
      [] OTHER -> <<"[object Object]">>

(***************************************************************************)
(* normalizeMetadataSchema (js/config.js)                                  *)
(***************************************************************************)
JcrPrefix == <<"jcr", ":">>
JcrTitle == <<"jcr", ":", "title">>
JcrDescription == <<"jcr", ":", "description">>
JcrPrimaryType == <<"jcr", ":", "primaryType">>
JcrMixinTypes == <<"jcr", ":", "mixinTypes">>
DefaultNamespace == <<"_default">>

\* the property keys the inputs are drawn from
MetaKeys ==
    { JcrTitle, JcrDescription, JcrPrimaryType, JcrMixinTypes,
      <<"jcr", ":", "created">>,
      <<"dc", ":", "title">>, <<"dc", ":", "format">>,
      <<"custom">>, <<":", "odd">>, <<"_default", ":", "x">> }

MetaValues == {"v1", "v2"}

\* the namespace a key is filed under (lines 544-557)
namespaceOf(key) ==
    LET colonIndex == IndexOf(key, ":")
    IN IF colonIndex > 0 THEN SubSeq(key, 1, colonIndex) ELSE DefaultNamespace

\* the loop body with line 541 moved below the colonIndex test, so that a
\* key without namespace reaches its bucket but not the properties
normalizeMetadataEntryLateStore(s, key, value) ==
    IF StartsWith(key, JcrPrefix) /\ key # JcrTitle /\ key # JcrDescription
    THEN IF key = JcrPrimaryType \/ key = JcrMixinTypes
         THEN [s EXCEPT !.properties = Put(@, key, value)]
         ELSE s
    ELSE LET namespace == namespaceOf(key)
             bucket == IF namespace \in DOMAIN s.namespaces
                       THEN s.namespaces[namespace] ELSE EmptyObject
         IN [s EXCEPT !.properties = IF IndexOf(key, ":") > 0 THEN Put(@, key, value) ELSE @,
                      !.namespaces = Put(@, namespace, Put(bucket, key, value))]

\* the loop body without lines 535-537: every key with the reserved
\* prefix but the two display keys is skipped
normalizeMetadataEntryDropStructural(s, key, value) ==
    IF StartsWith(key, JcrPrefix) /\ key # JcrTitle /\ key # JcrDescription
    THEN s
    ELSE LET namespace == namespaceOf(key)
             bucket == IF namespace \in DOMAIN s.namespaces
                       THEN s.namespaces[namespace] ELSE EmptyObject
         IN [s EXCEPT !.properties = Put(@, key, value),
                      !.namespaces = Put(@, namespace, Put(bucket, key, value))]

\* one iteration of the for-of loop over Object.entries(response)
normalizeMetadataEntry(s, key, value) ==
    IF StartsWith(key, JcrPrefix) /\ key # JcrTitle /\ key # JcrDescription
    THEN IF key = JcrPrimaryType \/ key = JcrMixinTypes
         THEN [s EXCEPT !.properties = Put(@, key, value)]
         ELSE s
    ELSE LET namespace == namespaceOf(key)
             bucket == IF namespace \in DOMAIN s.namespaces
                       THEN s.namespaces[namespace] ELSE EmptyObject
         IN [s EXCEPT !.properties = Put(@, key, value),
                      !.namespaces = Put(@, namespace, Put(bucket, key, value))]

RECURSIVE normalizeMetadataLoop(_, _)
normalizeMetadataLoop(s, entries) ==
    IF entries = <<>> THEN s
    ELSE normalizeMetadataLoop(
             normalizeMetadataEntry(s, Head(entries)[1], Head(entries)[2]),
             Tail(entries))

EmptySchema == [raw |-> <<>>, properties |-> EmptyObject, namespaces |-> EmptyObject]

normalizeMetadataSchema(response) ==
    normalizeMetadataLoop([EmptySchema EXCEPT !.raw = response], response)

\* Object.entries of the inputs: distinct keys, each with a value
MetaEntries(ks, vs) == [i \in DOMAIN ks |-> <<ks[i], vs[i]>>]

IsMetaInput(entries) ==
    \E n \in 0..MaxEntries :
        \E ks \in [1..n -> MetaKeys] :
            /\ \A i, j \in 1..n : ks[i] = ks[j] => i = j
            /\ \E vs \in [1..n -> MetaValues] : entries = MetaEntries(ks, vs)

MetaIdle == metaIn = <<>> /\ schema = EmptySchema
ListIdle == listIn = Undef /\ listOut = Undef
TokenIdle ==
    /\ caller = "none" /\ cred = Undef /\ nowMs = 0 /\ payload = EmptyObject
    /\ attempts = <<>> /\ jwt = Undef /\ requests = <<>> /\ relayResponse = Undef
    /\ raised = Undef /\ outcome = Undef
EntityIdle == entityIn = Undef /\ entityOut = Undef
CodecIdle ==
    /\ claims = Undef /\ signature = <<>> /\ assertion = <<>> /\ presented = Undef /\ clock = 0
    /\ decodeOut = Undef /\ expiredOut = Undef /\ pkcs1In = Undef /\ pkcs8Out = Undef
RelayIdle == relayLog = <<>> /\ forwarded = <<>> /\ savedAuth = Undef
NetIdle ==
    /\ netCall = Undef /\ netPhase = "idle" /\ netElapsed = 0 /\ netCause = "none"
    /\ callerAborted = FALSE /\ netOut = Undef
DemoIdle ==
    /\ demoCall = Undef /\ demoPhase = "idle" /\ demoFailure = Undef /\ demoOut = Undef
CfgIdle ==
    /\ cfgDefaults = Undef /\ cfgConfig = Undef /\ cfgStorage = Undef /\ cfgBefore = Undef
    /\ cfgLastOp = "none" /\ cfgHistory = <<>> /\ cfgExport = Undef
UpdIdle ==
    /\ updRequest = Undef /\ updPhase = "idle" /\ updCsrf = Undef /\ updPuts = <<>>
    /\ updResponses = <<>>
SelIdle ==
    /\ selSelected = <<>> /\ selCallback = FALSE /\ selCalls = <<>> /\ selBefore = <<>>
    /\ selLastOp = Undef /\ selSteps = 0
FileIdle ==
    /\ fileRequest = <<>> /\ filePhase = "idle" /\ fileResolved = <<>> /\ fileResponse = Undef
LaterIdle == NetIdle /\ DemoIdle /\ CfgIdle /\ UpdIdle /\ SelIdle /\ FileIdle

InitMeta ==
    /\ pc = "start"
    /\ IsMetaInput(metaIn)
    /\ schema = EmptySchema
    /\ ListIdle
    /\ TokenIdle
    /\ EntityIdle
    /\ CodecIdle
    /\ RelayIdle
    /\ LaterIdle

NormalizeMetadataSchema ==
    /\ pc = "start"
    /\ schema' = normalizeMetadataSchema(metaIn)
    /\ pc' = "done"
    /\ UNCHANGED <<laterVars, metaIn, listVars, tokenVars, entityVars, codecVars, relayVars>>

NextMeta == NormalizeMetadataSchema

SpecMeta == InitMeta /\ [][NextMeta]_vars

\* keys of the input, and the keys found in any namespace bucket
InputKeys == {metaIn[i][1] : i \in 1..Len(metaIn)}
BucketKeys == UNION {DOMAIN schema.namespaces[ns] : ns \in DOMAIN schema.namespaces}
BucketsHolding(key) == {ns \in DOMAIN schema.namespaces : key \in DOMAIN schema.namespaces[ns]}

(* C1: after normalizeMetadataSchema the keys of the namespace buckets,    *)
(* flattened, are exactly the keys of the all-properties mapping, and each *)
(* all-properties key is in exactly one bucket.                            *)
C1_BucketsEqualProperties ==
    pc = "done" =>
        /\ BucketKeys = DOMAIN schema.properties
        /\ \A key \in DOMAIN schema.properties : Cardinality(BucketsHolding(key)) = 1

(* C2: every key stored in a namespace bucket is a key of the              *)
(* all-properties mapping with the same value, and no key is stored in two *)
(* different buckets.                                                      *)
C2_BucketsWithinProperties ==
    pc = "done" =>
        /\ \A ns \in DOMAIN schema.namespaces :
             \A key \in DOMAIN schema.namespaces[ns] :
                /\ key \in DOMAIN schema.properties
                /\ schema.properties[key] = schema.namespaces[ns][key]
        /\ \A key \in BucketKeys : Cardinality(BucketsHolding(key)) = 1

C2_Witness ==
    /\ pc = "done"
    /\ Cardinality(DOMAIN schema.namespaces) >= 2
    /\ DefaultNamespace \in DOMAIN schema.namespaces
    /\ Cardinality(DOMAIN schema.namespaces[DefaultNamespace]) >= 2

(***************************************************************************)
(* normalizeAsset and normalizeListResponse (js/config.js)                 *)
(***************************************************************************)
IsThrow(x) == x.t = "throw"

DamRoot == "/content/dam"
ApiAssets == "/api/assets"
DotJson == ".json"

\* tokens of a URL: those that begin with '/', and those that hold a '?'
SlashTokens == {ApiAssets, "/folder", "/a.jpg"}
QueryTokens == {"?x=1"}

\* rel.includes(name): Array.prototype.includes on a list, String.prototype.includes
\* on a string; any other non-nullish rel has no includes method
RelIncludes(rel, name) ==
    CASE rel.t = "list" -> \E i \in 1..Len(rel.v) : rel.v[i] = Str(<<name>>)
      [] rel.t = "str" -> name \in Range(rel.v)
      [] OTHER -> FALSE

\* links.find(l => l.rel?.includes(name)) on a list
RECURSIVE FindRel(_, _)
FindRel(ls, name) ==
    IF ls = <<>> THEN Undef
    ELSE LET l == Head(ls) IN
         IF Nullish(l) THEN Throw("TypeError")
         ELSE LET rel == Get(l, "rel") IN
              IF Nullish(rel) THEN FindRel(Tail(ls), name)
              ELSE IF rel.t \notin {"list", "str"} THEN Throw("TypeError")
              ELSE IF RelIncludes(rel, name) THEN l
              ELSE FindRel(Tail(ls), name)

\* links.find(...)?.href for a links value that may not be a list
FindHref(links, name) ==
    IF ~IsArray(links) THEN Throw("TypeError")
    ELSE LET found == FindRel(links.v, name) IN
         IF IsThrow(found) THEN found ELSE OptGet(found, "href")

\* the captures of /\/api\/assets(\/[^?]+)\.json/ at each start position i:
\* the group starts with '/', holds no '?', and is as long as possible
SelfMatchEnds(href, i) ==
    {j \in (i + 2)..Len(href) :
        /\ href[j] = DotJson
        /\ href[i + 1] \in SlashTokens
        /\ \A k \in (i + 1)..(j - 1) : href[k] \notin QueryTokens}

SelfMatchStarts(href) ==
    {i \in 1..Len(href) : href[i] = ApiAssets /\ SelfMatchEnds(href, i) # {}}

\* selfLink.match(...): the captured group match[1], or Null when nothing matches
SelfMatch(href) ==
    IF SelfMatchStarts(href) = {} THEN Null
    ELSE LET i == CHOOSE x \in SelfMatchStarts(href) : \A y \in SelfMatchStarts(href) : x <= y
             j == CHOOSE x \in SelfMatchEnds(href, i) : \A y \in SelfMatchEnds(href, i) : x >= y
         IN Str(SubSeq(href, i + 1, j - 1))

\* decodeURIComponent: "%20" is an escape, a lone "%" is malformed
decodeURIComponent(tokens) ==
    IF "%" \in Range(tokens) THEN Throw("URIError")
    ELSE Str([i \in 1..Len(tokens) |-> IF tokens[i] = "%20" THEN " " ELSE tokens[i]])

\* lines 437-445: path from the self link
PathFromSelfLink(selfLink) ==
    IF ~Truthy(selfLink) THEN Str(<<>>)
    ELSE IF selfLink.t # "str" THEN Throw("TypeError")
    ELSE LET match == SelfMatch(selfLink.v) IN
         IF match = Null THEN Str(<<>>)
         ELSE LET decoded == decodeURIComponent(match.v) IN
              IF IsThrow(decoded) THEN decoded
              ELSE Str(<<DamRoot>> \o decoded.v)

normalizeAsset(entity) ==
    IF Nullish(entity) THEN Throw("TypeError")
    ELSE
    LET props == Or(Get(entity, "properties"), Obj(EmptyObject))
        metadata == Or(Get(props, "metadata"), Obj(EmptyObject))
        links == Or(Get(entity, "links"), List(<<>>))
        selfHref == FindHref(links, "self")
        contentHref == FindHref(links, "content")
        thumbHref == FindHref(links, "thumbnail")
        selfLink == Or(selfHref, Str(<<>>))
        contentLink == Or(contentHref, Str(<<>>))
        path == PathFromSelfLink(selfLink)
    IN  IF IsThrow(selfHref) THEN selfHref
        ELSE IF IsThrow(contentHref) THEN contentHref
        ELSE IF IsThrow(path) THEN path
        ELSE IF IsThrow(thumbHref) THEN thumbHref
        ELSE Obj([ id |-> Or(Get(props, "fmUuid"), Get(props, "name")),
                   name |-> Or(Get(props, "name"), Str(<<>>)),
                   path |-> path,
                   title |-> Or(Get(metadata, "dc:title"), Or(Get(props, "name"), Str(<<>>))),
                   description |-> Or(Get(metadata, "dc:description"), Str(<<>>)),
                   mimeType |-> Or(Get(metadata, "dc:format"), Str(<<>>)),
                   size |-> Or(Get(metadata, "dam:size"), Or(Get(props, "size"), Num(0))),
                   created |-> Get(props, "jcr:created"),
                   modified |-> Get(props, "jcr:lastModified"),
                   thumbnail |-> thumbHref,
                   contentUrl |-> contentLink,
                   metadata |-> props ])

\* lines 378-386 with the path made of the id instead of the name
normalizeChildPathOfId(child) ==
    IF Nullish(child) THEN Throw("TypeError")
    ELSE Obj([ id |-> Or(Get(child, "id"), Get(child, "name")),
               name |-> Get(child, "name"),
               path |-> Or(Get(child, "path"),
                           Str(<<DamRoot, "/">> \o ToStringTokens(Get(child, "id")))),
               title |-> Or(Get(child, "title"), Get(child, "name")),
               mimeType |-> Get(child, "mimeType"),
               size |-> Or(Get(child, "size"), Num(0)),
               metadata |-> child ])

\* lines 378-386: one element of response.children.map(...)
normalizeChild(child) ==
    IF Nullish(child) THEN Throw("TypeError")
    ELSE Obj([ id |-> Or(Get(child, "id"), Get(child, "name")),
               name |-> Get(child, "name"),
               path |-> Or(Get(child, "path"),
                           Str(<<DamRoot, "/">> \o ToStringTokens(Get(child, "name")))),
               title |-> Or(Get(child, "title"), Get(child, "name")),
               mimeType |-> Get(child, "mimeType"),
               size |-> Or(Get(child, "size"), Num(0)),
               metadata |-> child ])

\* lines 397-405: the asset made of the nested node response[key]
normalizeNode(key, node) ==
    Obj([ id |-> Str(<<key>>),
          name |-> Str(<<key>>),
          path |-> Str(<<DamRoot, "/", key>>),
          title |-> Or(Get(node, "jcr:title"), Str(<<key>>)),
          mimeType |-> Get(node, "jcr:mimeType"),
          metadata |-> node ])

\* the order in which for-in visits the keys of a payload
PayloadKeyOrder == <<"entities", "children", "jcr:primaryType", "properties", "a.jpg", "b">>

PresentKeys(response) ==
    SelectSeq(PayloadKeyOrder, LAMBDA k : response.t = "obj" /\ k \in DOMAIN response.v)

\* line 397: the keys whose value is an object carrying a primary-type marker
IsMarkedNode(x) ==
    /\ Truthy(x)
    /\ x.t \in {"obj", "list"}
    /\ Truthy(Get(x, "jcr:primaryType"))

MarkedKeys(response) ==
    SelectSeq(PresentKeys(response), LAMBDA k : IsMarkedNode(response.v[k]))

\* Array.prototype.map with a callback that may throw: the first throw wins
\* (ys holds the callback's outcome for each element)
MapOrThrow(ys) ==
    LET bad == {i \in 1..Len(ys) : IsThrow(ys[i])}
    IN IF bad = {} THEN List(ys)
       ELSE ys[CHOOSE i \in bad : \A j \in bad : i <= j]

ListResult(assets, properties, total, raw) ==
    [t |-> "ok", assets |-> assets, properties |-> properties, total |-> total, raw |-> raw]

\* lines 360-373 with the total always the length of the list
entitiesShapeCountOnly(response) ==
    LET entities == Get(response, "entities").v
        assets == MapOrThrow([i \in 1..Len(entities) |-> normalizeAsset(entities[i])])
    IN IF IsThrow(assets) THEN assets
       ELSE ListResult(assets.v, Get(response, "properties"), Num(Len(entities)), response)

\* lines 360-373: the Siren shape
entitiesShape(response) ==
    LET entities == Get(response, "entities").v
        assets == MapOrThrow([i \in 1..Len(entities) |-> normalizeAsset(entities[i])])
        paging == OptGet(OptGet(Get(response, "properties"), "srn:paging"), "total")
    IN IF IsThrow(assets) THEN assets
       ELSE ListResult(assets.v, Get(response, "properties"),
                       Or(paging, Num(Len(entities))), response)

\* lines 376-391: the children shape
childrenShape(response) ==
    LET children == Get(response, "children").v
        assets == MapOrThrow([i \in 1..Len(children) |-> normalizeChild(children[i])])
    IN IF IsThrow(assets) THEN assets
       ELSE ListResult(assets.v, Or(Get(response, "properties"), Obj(EmptyObject)),
                       Num(Len(children)), response)

\* lines 394-414: the flat properties shape
flatShape(response) ==
    LET keys == MarkedKeys(response)
        assets == [i \in 1..Len(keys) |-> normalizeNode(keys[i], response.v[keys[i]])]
    IN ListResult(assets,
                  Obj([x \in {"jcr:primaryType"} |-> Get(response, "jcr:primaryType")]),
                  Num(Len(assets)), response)

\* lines 417-422: the unknown shape
unknownShape(response) == ListResult(<<>>, Obj(EmptyObject), Num(0), response)

\* the dispatch with the children test placed before the entities test
normalizeListResponseChildrenFirst(response) ==
    IF Nullish(response) THEN Throw("TypeError")
    ELSE IF Truthy(Get(response, "children")) /\ IsArray(Get(response, "children"))
    THEN childrenShape(response)
    ELSE IF Truthy(Get(response, "entities")) /\ IsArray(Get(response, "entities"))
    THEN entitiesShape(response)
    ELSE IF Truthy(Get(response, "jcr:primaryType"))
    THEN flatShape(response)
    ELSE unknownShape(response)

normalizeListResponse(response) ==
    IF Nullish(response) THEN Throw("TypeError")
    ELSE IF Truthy(Get(response, "entities")) /\ IsArray(Get(response, "entities"))
    THEN entitiesShape(response)
    ELSE IF Truthy(Get(response, "children")) /\ IsArray(Get(response, "children"))
    THEN childrenShape(response)
    ELSE IF Truthy(Get(response, "jcr:primaryType"))
    THEN flatShape(response)
    ELSE unknownShape(response)

\* the payloads the inputs are drawn from
EntityFull ==
    Obj([ properties |-> Obj([fmUuid |-> Str(<<"u1">>), name |-> Str(<<"a.jpg">>)]),
          links |-> List(<< Obj([ rel |-> List(<<Str(<<"self">>)>>),
                                  href |-> Str(<<"https://host", ApiAssets, "/folder",
                                                 "/a.jpg", DotJson>>) ]) >>) ])
EntityBare == Obj([properties |-> Obj([name |-> Str(<<"b">>)])])
EntityEmpty == Obj(EmptyObject)
EntityValues == {EntityFull, EntityBare, EntityEmpty, Null}

ChildFull == Obj([id |-> Str(<<"1">>), name |-> Str(<<"a.jpg">>)])
ChildPath == Obj([name |-> Str(<<"b">>), path |-> Str(<<"/x", "/b">>)])
ChildValues == {ChildFull, ChildPath, Obj(EmptyObject)}

MarkedNode ==
    Obj(("jcr:primaryType" :> Str(<<"dam:Asset">>)) @@ ("jcr:title" :> Str(<<"T">>)))
PagingProperties(n) == Obj("srn:paging" :> Obj([total |-> Num(n)]))

\* a payload property that is a list of up to MaxList values, or no list
ListOptions(values) ==
    {Undef, Str(<<"x">>), MarkedNode} \cup {List(xs) : xs \in SeqsUpTo(values, MaxList)}

\* the object with the properties of choice that are not undefined
PayloadOf(choice) ==
    Obj([k \in {x \in DOMAIN choice : choice[x].t # "undef"} |-> choice[k]])

ObjectPayloads ==
    { PayloadOf(("entities" :> e) @@ ("children" :> c) @@ ("jcr:primaryType" :> m)
                @@ ("properties" :> p) @@ ("a.jpg" :> a) @@ ("b" :> b)) :
        e \in ListOptions(EntityValues),
        c \in ListOptions(ChildValues),
        m \in {Undef, Str(<<>>), Str(<<"dam:Folder">>)},
        p \in {Undef, PagingProperties(0), PagingProperties(7)},
        a \in {Undef, MarkedNode, Obj(EmptyObject)},
        b \in {Undef, MarkedNode} }

ListInputs == ObjectPayloads \cup {Undef, Null, Str(<<"x">>), Num(0)}

InitList ==
    /\ pc = "start"
    /\ listIn \in ListInputs
    /\ listOut = Undef
    /\ MetaIdle
    /\ TokenIdle
    /\ EntityIdle
    /\ CodecIdle
    /\ RelayIdle
    /\ LaterIdle

NormalizeListResponse ==
    /\ pc = "start"
    /\ listOut' = normalizeListResponse(listIn)
    /\ pc' = "done"
    /\ UNCHANGED <<laterVars, listIn, metaVars, tokenVars, entityVars, codecVars, relayVars>>

NextList == NormalizeListResponse

SpecList == InitList /\ [][NextList]_vars

\* what the payload carries
HasEntitiesList == listIn.t = "obj" /\ Get(listIn, "entities").t = "list"
HasChildrenList == listIn.t = "obj" /\ Get(listIn, "children").t = "list"
HasMarker == listIn.t = "obj" /\ Get(listIn, "jcr:primaryType") \notin {Undef, Str(<<>>)}

\* the result maps the entities list, element by element
IsEntityShapeResult ==
    LET entities == Get(listIn, "entities").v IN
    /\ Len(listOut.assets) = Len(entities)
    /\ \A i \in 1..Len(entities) :
         Get(listOut.assets[i], "metadata")
           = Or(Get(entities[i], "properties"), Obj(EmptyObject))
    /\ listOut.properties = Get(listIn, "properties")

\* the result maps the children list, element by element
IsChildrenShapeResult ==
    LET children == Get(listIn, "children").v IN
    /\ Len(listOut.assets) = Len(children)
    /\ \A i \in 1..Len(children) : Get(listOut.assets[i], "metadata") = children[i]
    /\ listOut.total = Num(Len(children))

(* C3: normalizeListResponse tests for an entities list, then a children   *)
(* list, then the primary-type marker, and the first match wins; an object *)
(* payload matching none gives no assets, total 0 and the raw payload.     *)
C3_DispatchOrder ==
    (pc = "done" /\ listIn.t = "obj" /\ listOut.t = "ok") =>
        /\ HasEntitiesList => IsEntityShapeResult
        /\ (HasChildrenList /\ ~HasEntitiesList) => IsChildrenShapeResult
        /\ (~HasEntitiesList /\ ~HasChildrenList /\ ~HasMarker) =>
              /\ listOut.assets = <<>>
              /\ listOut.total = Num(0)
              /\ listOut.raw = listIn

C3_Witness ==
    /\ pc = "done"
    /\ listOut.t = "ok"
    /\ HasEntitiesList /\ HasChildrenList /\ HasMarker
    /\ Len(Get(listIn, "entities").v) = 2
    /\ Len(Get(listIn, "children").v) = 1
    /\ Get(listIn, "a.jpg") = MarkedNode

(***************************************************************************)
(* Token issuer (js/token-generator.js).  A scope string is a sequence of  *)
(* characters; a PEM text is a sequence of PEM tokens: "A" a character of  *)
(* the base64 alphabet, "=" the padding character, "!" any other visible   *)
(* character, " " white space, "ESC_NL" a literal backslash-n (or          *)
(* backslash-r backslash-n), "HDR" one of the four BEGIN/END lines.        *)
(***************************************************************************)
Bool(b) == [t |-> "bool", v |-> b]

DefaultMetascopes == Str(<<"ent_aem_cloud_api">>)
DefaultImsEndpoint == Str(<<"ims-na1.adobelogin.com">>)

\* a destructuring default: used when the property is undefined
Default(x, d) == IF x.t = "undef" THEN d ELSE x

\* String.prototype.split with a one-character separator
RECURSIVE Split(_, _)
Split(s, sep) ==
    LET i == IndexOf(s, sep) IN
    IF i = -1 THEN <<s>>
    ELSE <<SubSeq(s, 1, i)>> \o Split(SubSeq(s, i + 2, Len(s)), sep)

WhiteSpace == {" ", "NL"}

\* String.prototype.trim
RECURSIVE Trim(_)
Trim(s) ==
    IF s = <<>> THEN s
    ELSE IF Head(s) \in WhiteSpace THEN Trim(Tail(s))
    ELSE IF s[Len(s)] \in WhiteSpace THEN Trim(SubSeq(s, 1, Len(s) - 1))
    ELSE s

\* line 43 without the trim
scopesListNoTrim(metascopes) == Split(metascopes, ",")

\* line 43: metascopes.split(',').map(s => s.trim())
scopesList(metascopes) ==
    LET parts == Split(metascopes, ",") IN [i \in 1..Len(parts) |-> Trim(parts[i])]

\* the payload key `https://${imsEndpoint}/s/${scope}`
ScopeKey(imsEndpoint, scope) == <<"https://">> \o imsEndpoint \o <<"/s/">> \o scope

\* line 33: now + (24 * 60 * 60)
expirationOf(now) == now + (24 * 60 * 60)

\* lines 44-46: scopesList.forEach(scope => payload[...] = true)
RECURSIVE addScopes(_, _, _)
addScopes(p, imsEndpoint, scopes) ==
    IF scopes = <<>> THEN p
    ELSE addScopes(Put(p, ScopeKey(imsEndpoint, Head(scopes)), Bool(TRUE)),
                   imsEndpoint, Tail(scopes))

\* lines 32-46: the payload of generateJWT
buildPayload(clientId, technicalAccountId, imsOrg, metascopes, imsEndpoint, dateNow) ==
    LET now == dateNow \div 1000
        base == (<<"exp">> :> Num(expirationOf(now)))
                @@ (<<"iss">> :> imsOrg)
                @@ (<<"sub">> :> technicalAccountId)
                @@ (<<"aud">> :> Str(<<"https://">> \o imsEndpoint.v \o <<"/c/">> \o clientId.v))
    IN addScopes(base, imsEndpoint.v, scopesList(metascopes.v))

\* lines 82-91: the replace chain of importPrivateKey
pemContents(pem) ==
    LET unescaped == [i \in 1..Len(pem) |-> IF pem[i] = "ESC_NL" THEN "NL" ELSE pem[i]]
        noHeaders == SelectSeq(unescaped, LAMBDA c : c # "HDR")
    IN SelectSeq(noHeaders, LAMBDA c : c \notin WhiteSpace)

\* the number of '=' at the end of s
RECURSIVE TrailingPads(_)
TrailingPads(s) ==
    IF s = <<>> \/ s[Len(s)] # "=" THEN 0 ELSE 1 + TrailingPads(SubSeq(s, 1, Len(s) - 1))

\* line 94: /^[A-Za-z0-9+/]*={0,2}$/.test(pemContents)
base64RegexTest(s) ==
    \E k \in 0..2 :
        /\ k <= TrailingPads(s)
        /\ \A i \in 1..(Len(s) - k) : s[i] = "A"

\* a decoder that takes whatever passed the test of line 94
atobOkAnyLength(s) == TRUE

\* line 101: atob succeeds (forgiving-base64 decode): padding is removed only
\* from a string whose length is a multiple of 4, what is left must not have
\* length 1 mod 4 and must consist of base64 characters
atobOk(s) ==
    LET pads == IF TrailingPads(s) > 2 THEN 2 ELSE TrailingPads(s)
        data == IF Len(s) % 4 = 0 THEN SubSeq(s, 1, Len(s) - pads) ELSE s
    IN /\ Len(data) % 4 # 1
       /\ \A i \in 1..Len(data) : data[i] = "A"

ErrInvalidChars == <<Str(<<"Invalid PEM format: contains invalid characters">>)>>
ErrBase64 ==
    <<Str(<<"Invalid PEM format: base64 decoding failed. Please check the private key format.">>)>>
ErrImport ==
    <<Str(<<"Failed to import private key. Ensure it is a valid RSA private key in PEM format.">>)>>
ErrNotAString == <<Str(<<"TypeError: Cannot read properties of undefined">>)>>
ErrSign == <<Str(<<"OperationError">>)>>
ExchangePrefix == Str(<<"Token exchange failed: ">>)

\* lines 82-109: the bytes importPrivateKey decodes, or what it throws before
\* any import; keyBytes says what the decoded bytes are
decodePem(privateKey, keyBytes) ==
    IF privateKey.t # "str" THEN Throw(ErrNotAString)
    ELSE LET contents == pemContents(privateKey.v) IN
         IF ~base64RegexTest(contents) THEN Throw(ErrInvalidChars)
         ELSE IF ~atobOk(contents) THEN Throw(ErrBase64)
         ELSE [t |-> "bytes", kind |-> keyBytes, wrapped |-> FALSE]

\* lines 140-168: the PKCS#8 header put in front of the PKCS#1 bytes
convertPKCS1ToPKCS8(pkcs1Bytes) == [pkcs1Bytes EXCEPT !.wrapped = TRUE]

\* crypto.subtle.importKey('pkcs8', data, RSASSA-PKCS1-v1_5): the platform takes
\* a PKCS#8 RSA key, and a PKCS#1 RSA key inside a PKCS#8 wrapper
importKeyOk(data) ==
    \/ data.kind = "pkcs8" /\ ~data.wrapped
    \/ data.kind = "pkcs1" /\ data.wrapped

\* lines 205-211: the request exchangeJWTForToken sends
exchangeRequest(clientId, clientSecret, token, imsEndpoint) ==
    [ url |-> "/ims/exchange/jwt",
      method |-> "POST",
      contentType |-> "application/x-www-form-urlencoded",
      body |-> [ client_id |-> clientId,
                 client_secret |-> clientSecret,
                 jwt_token |-> token,
                 ims_endpoint |-> imsEndpoint ] ]

\* Response.ok
responseOk(r) == r.status >= 200 /\ r.status <= 299

\* lines 238-240 as catch (error) { throw error }
exchangeCatchRethrow(message) == Throw(message)

\* lines 238-240: catch (error) { throw new Error(`Token exchange failed: ${error.message}`) }
exchangeCatch(message) == Throw(<<ExchangePrefix>> \o message)

\* lines 213-240: what exchangeJWTForToken returns or throws for an answer of
\* the relay; a body is a JSON value, or a string when it is no JSON text
exchangeOutcome(r) ==
    IF r.t = "reject" THEN exchangeCatch(<<Str(<<"Failed to fetch">>)>>)
    ELSE IF ~responseOk(r)
    THEN exchangeCatch(<<ExchangePrefix, Num(r.status), Str(<<" - ">>), r.body>>)
    ELSE IF r.body.t = "str" THEN exchangeCatch(<<Str(<<"SyntaxError: Unexpected token">>)>>)
    ELSE IF Nullish(r.body) THEN exchangeCatch(ErrNotAString)
    ELSE LET data == r.body IN
         IF Truthy(Get(data, "error"))
         THEN exchangeCatch(<<Get(data, "error"), Str(<<": ">>),
                              Or(Get(data, "error_description"), Str(<<>>))>>)
         ELSE [ t |-> "ok",
                accessToken |-> Get(data, "access_token"),
                tokenType |-> Get(data, "token_type"),
                expiresIn |-> Get(data, "expires_in") ]

\* who composes the two stages: AdobeTokenGenerator.generateAccessToken, or the
\* settings page handler generateAccessToken of utils.js
Callers == {"generateAccessToken", "settings"}

\* utils.js lines 1624-1630: the form values, trimmed, with their defaults
formValue(x) == IF x.t = "str" THEN Str(Trim(x.v)) ELSE Str(<<>>)

credentialsOf(who, c) ==
    IF who = "settings"
    THEN [c EXCEPT !.privateKey = formValue(c.privateKey),
                   !.imsEndpoint = Or(formValue(c.imsEndpoint), DefaultImsEndpoint),
                   !.metascopes = Or(formValue(c.metascopes), DefaultMetascopes)]
    ELSE [c EXCEPT !.imsEndpoint = Default(c.imsEndpoint, DefaultImsEndpoint),
                   !.metascopes = Default(c.metascopes, DefaultMetascopes)]

\* generateAccessToken with a catch that wraps what the stages throw
callerSeesWrapped(who, stage, message, token) ==
    IF who = "generateAccessToken"
    THEN Throw(<<Str(<<"Failed to generate token: ">>)>> \o message)
    ELSE [ t |-> "ui", status |-> <<Str(<<"Error: ">>)>> \o message,
           className |-> "token-status error", modal |-> Undef ]

\* what the caller of the issuance gets when a stage throws: generateAccessToken
\* has no try/catch, the settings handler has one catch per stage
callerSees(who, stage, message, token) ==
    IF who = "generateAccessToken" THEN Throw(message)
    ELSE IF stage = "exchange"
    THEN [ t |-> "ui", status |-> <<Str(<<"CORS blocked direct exchange.">>)>>,
           className |-> "token-status", modal |-> token ]
    ELSE [ t |-> "ui", status |-> <<Str(<<"Error: ">>)>> \o message,
           className |-> "token-status error", modal |-> Undef ]

\* lines 276-280 / utils.js lines 1665-1672: what the caller gets on success
callerGets(who, token, tokenResponse) ==
    IF who = "generateAccessToken"
    THEN [ t |-> "ok", jwt |-> token, accessToken |-> tokenResponse.accessToken,
           tokenType |-> tokenResponse.tokenType, expiresIn |-> tokenResponse.expiresIn ]
    ELSE [ t |-> "ui", status |-> <<Str(<<"Token generated successfully!">>)>>,
           className |-> "token-status success", modal |-> Undef,
           tokenField |-> tokenResponse.accessToken ]

Fail(stage, message) ==
    /\ raised' = [stage |-> stage, message |-> message]
    /\ outcome' = callerSees(caller, stage, message, jwt')
    /\ pc' = "done"

\* the synchronous start of the issuance: the payload is built (generateJWT),
\* signJWT encodes it and importPrivateKey cleans and decodes the PEM text and
\* makes its first importKey call
GenerateJWT ==
    /\ pc = "start"
    /\ LET c == credentialsOf(caller, cred) IN
       IF caller = "settings" /\ ~Truthy(c.privateKey)
       THEN \* utils.js lines 1633-1638
            /\ outcome' = [ t |-> "ui", status |-> <<Str(<<"Missing required fields">>)>>,
                            className |-> "token-status error", modal |-> Undef ]
            /\ pc' = "done"
            /\ UNCHANGED <<payload, attempts, jwt, raised>>
       ELSE LET decoded == decodePem(c.privateKey, c.keyBytes) IN
            /\ payload' = buildPayload(c.clientId, c.technicalAccountId, c.imsOrg,
                                       c.metascopes, c.imsEndpoint, nowMs)
            /\ jwt' = jwt
            /\ IF IsThrow(decoded)
               THEN Fail("assertion", decoded.error) /\ UNCHANGED attempts
               ELSE /\ attempts' = <<[data |-> decoded, result |-> "pending"]>>
                    /\ pc' = "import8"
                    /\ UNCHANGED <<raised, outcome>>
    /\ UNCHANGED <<laterVars, caller, cred, nowMs, requests, relayResponse, metaVars, listVars, entityVars,
                   codecVars, relayVars>>

\* lines 112-134 without the inner try: a rejected first import fails at once
ImportKeySettlesNoRetry ==
    /\ pc = "import8"
    /\ jwt' = jwt
    /\ LET data == attempts[1].data IN
       IF importKeyOk(data)
       THEN /\ attempts' = <<[data |-> data, result |-> "ok"]>>
            /\ pc' = "sign"
            /\ UNCHANGED <<raised, outcome>>
       ELSE /\ attempts' = <<[data |-> data, result |-> "rejected"]>>
            /\ Fail("assertion", ErrImport)
    /\ UNCHANGED <<laterVars, caller, cred, nowMs, payload, requests, relayResponse, metaVars, listVars, entityVars,
                   codecVars, relayVars>>

\* lines 112-134: the first importKey call settles
ImportKeySettles ==
    /\ pc = "import8"
    /\ LET data == attempts[1].data IN
       IF importKeyOk(data)
       THEN /\ attempts' = <<[data |-> data, result |-> "ok"]>>
            /\ pc' = "sign"
       ELSE /\ attempts' = << [data |-> data, result |-> "rejected"],
                              [data |-> convertPKCS1ToPKCS8(data), result |-> "pending"] >>
            /\ pc' = "import1"
    /\ UNCHANGED <<laterVars, caller, cred, nowMs, payload, jwt, requests, relayResponse, raised, outcome,
                   metaVars, listVars, entityVars,
                   codecVars, relayVars>>

\* lines 122-133: the importKey call on the converted bytes settles
ImportConvertedKeySettles ==
    /\ pc = "import1"
    /\ jwt' = jwt
    /\ IF importKeyOk(attempts[2].data)
       THEN /\ attempts' = [attempts EXCEPT ![2].result = "ok"]
            /\ pc' = "sign"
            /\ UNCHANGED <<raised, outcome>>
       ELSE /\ attempts' = [attempts EXCEPT ![2].result = "rejected"]
            /\ Fail("assertion", ErrImport)
    /\ UNCHANGED <<laterVars, caller, cred, nowMs, payload, requests, relayResponse, metaVars, listVars, entityVars,
                   codecVars, relayVars>>

\* lines 66-74: crypto.subtle.sign settles; the platform may reject
SignSettles ==
    /\ pc = "sign"
    /\ \E signed \in BOOLEAN :
         IF signed
         THEN /\ jwt' = [ t |-> "jwt", header |-> [alg |-> "RS256", typ |-> "JWT"],
                          payload |-> payload ]
              /\ pc' = "exchange"
              /\ UNCHANGED <<raised, outcome>>
         ELSE /\ jwt' = jwt
              /\ Fail("assertion", ErrSign)
    /\ UNCHANGED <<laterVars, caller, cred, nowMs, payload, attempts, requests, relayResponse,
                   metaVars, listVars, entityVars,
                   codecVars, relayVars>>

\* lines 196-220: exchangeJWTForToken builds the form and calls fetch
ExchangeJWTForToken ==
    /\ pc = "exchange"
    /\ LET c == credentialsOf(caller, cred) IN
       requests' = Append(requests,
                          exchangeRequest(c.clientId, c.clientSecret, jwt, c.imsEndpoint))
    /\ pc' = "fetch"
    /\ UNCHANGED <<laterVars, caller, cred, nowMs, payload, attempts, jwt, relayResponse, raised, outcome,
                   metaVars, listVars, entityVars,
                   codecVars, relayVars>>

\* what the relay may answer
TokenBody ==
    Obj([access_token |-> Str(<<"tok">>), token_type |-> Str(<<"bearer">>),
         expires_in |-> Num(86399)])
ErrorBody ==
    Obj([error |-> Str(<<"invalid_token">>), error_description |-> Str(<<"bad jwt">>)])
ErrorOnlyBody == Obj([error |-> Str(<<"invalid_scope">>), access_token |-> Str(<<"tok">>)])
EmptyErrorBody == Obj([error |-> Str(<<>>), access_token |-> Str(<<"tok">>)])
RelayBodies == {TokenBody, ErrorBody, ErrorOnlyBody, EmptyErrorBody, Str(<<"<html>">>), Null}
RelayStatuses == {200, 204, 400, 500}
RelayResponses ==
    {[t |-> "reject"]} \cup
    {[t |-> "http", status |-> st, body |-> b] : st \in RelayStatuses, b \in RelayBodies}

\* lines 213-240 and 269-280: fetch settles, exchangeJWTForToken returns or
\* throws, and the caller gets the result
FetchSettles ==
    /\ pc = "fetch"
    /\ \E r \in RelayResponses :
         /\ relayResponse' = r
         /\ jwt' = jwt
         /\ LET tokenResponse == exchangeOutcome(r) IN
            IF IsThrow(tokenResponse)
            THEN Fail("exchange", tokenResponse.error)
            ELSE /\ outcome' = callerGets(caller, jwt, tokenResponse)
                 /\ pc' = "done"
                 /\ UNCHANGED raised
    /\ UNCHANGED <<laterVars, caller, cred, nowMs, payload, attempts, requests, metaVars, listVars, entityVars,
                   codecVars, relayVars>>

\* the credentials the inputs are drawn from
ScopeChars == {"a", "b", ",", " "}
PemTokens == {"A", "=", "!", " ", "ESC_NL", "HDR"}
KeyKinds == {"pkcs8", "pkcs1", "other"}
GoodPem == Str(<<"HDR", "A", "A">>)

CredentialsWith(privateKey, keyBytes, metascopes, imsEndpoint) ==
    [ clientId |-> Str(<<"cid">>), clientSecret |-> Str(<<"secret">>),
      technicalAccountId |-> Str(<<"tech@acct">>), imsOrg |-> Str(<<"org@AdobeOrg">>),
      privateKey |-> privateKey, keyBytes |-> keyBytes,
      metascopes |-> metascopes, imsEndpoint |-> imsEndpoint ]

\* every scope string up to MaxScopeLen with a key that imports
ScopeCredentials ==
    { CredentialsWith(GoodPem, "pkcs8", m, e) :
        m \in {Undef} \cup {Str(x) : x \in SeqsUpTo(ScopeChars, MaxScopeLen)},
        e \in {Undef, Str(<<"ims.example">>)} }

\* every PEM text up to MaxPemLen, decoding to each kind of key bytes
KeyCredentials ==
    { CredentialsWith(k, b, Undef, Undef) :
        k \in {Undef} \cup {Str(x) : x \in SeqsUpTo(PemTokens, MaxPemLen)},
        b \in KeyKinds }

InitToken ==
    /\ pc = "start"
    /\ caller \in Callers
    /\ \/ cred \in ScopeCredentials /\ nowMs \in {1999, 86400000}
       \/ cred \in KeyCredentials /\ nowMs = 1999
    /\ payload = EmptyObject
    /\ attempts = <<>>
    /\ jwt = Undef
    /\ requests = <<>>
    /\ relayResponse = Undef
    /\ raised = Undef
    /\ outcome = Undef
    /\ MetaIdle
    /\ ListIdle
    /\ EntityIdle
    /\ CodecIdle
    /\ RelayIdle
    /\ LaterIdle

NextToken ==
    \/ GenerateJWT
    \/ ImportKeySettles
    \/ ImportConvertedKeySettles
    \/ SignSettles
    \/ ExchangeJWTForToken
    \/ FetchSettles

SpecToken == InitToken /\ [][NextToken]_vars

\* the credentials generateJWT and exchangeJWTForToken are called with, and
\* whether generateJWT has been called
GivenCred == credentialsOf(caller, cred)
JwtCalled == pc # "start" /\ payload # EmptyObject

StandardClaims == {<<"exp">>, <<"iss">>, <<"sub">>, <<"aud">>}
ScopeEntries == (DOMAIN payload) \ StandardClaims
GivenScopeItems == Split(GivenCred.metascopes.v, ",")

StandardClaimsRight ==
    /\ StandardClaims \subseteq DOMAIN payload
    /\ payload[<<"exp">>] = Num((nowMs \div 1000) + 86400)
    /\ \A k \in ScopeEntries : payload[k] = Bool(TRUE)

\* every comma-separated item of the scope string names a scope
EveryItemIsAScope ==
    \A i \in 1..Len(GivenScopeItems) : Trim(GivenScopeItems[i]) # <<>>

(* C4 as stated: the payload holds the four standard claims, exp is the    *)
(* issue time in seconds plus 86400, and for a scope string of N           *)
(* comma-separated scopes there are exactly N scope entries.               *)
C4_ExactlyNScopeEntries ==
    (JwtCalled /\ EveryItemIsAScope) =>
        /\ StandardClaimsRight
        /\ Cardinality(ScopeEntries) = Len(GivenScopeItems)

(* C4 amended: the scope entries are exactly the keys                      *)
(* https://{endpoint}/s/{scope} of the trimmed comma-separated items, one  *)
(* per distinct item (so N entries when the N items are pairwise distinct  *)
(* after trimming, fewer otherwise), each true, beside the four standard   *)
(* claims with exp = issue time in seconds + 86400.                        *)
C4_OneEntryPerDistinctScope ==
    JwtCalled =>
        /\ StandardClaimsRight
        /\ ScopeEntries =
             { <<"https://">> \o GivenCred.imsEndpoint.v \o <<"/s/">> \o Trim(GivenScopeItems[i]) :
                 i \in 1..Len(GivenScopeItems) }
        /\ Cardinality(ScopeEntries) <= Len(GivenScopeItems)
        /\ (\A i, j \in 1..Len(GivenScopeItems) :
               i # j => Trim(GivenScopeItems[i]) # Trim(GivenScopeItems[j]))
             => Cardinality(ScopeEntries) = Len(GivenScopeItems)

C4_Witness ==
    /\ JwtCalled
    /\ GivenCred.metascopes = Str(<<"a", ",", "b">>)
    /\ Cardinality(ScopeEntries) = 2
    /\ nowMs = 1999

\* the scope string holds no scope: every item is empty after trimming
NoScopeGiven == \A i \in 1..Len(GivenScopeItems) : Trim(GivenScopeItems[i]) = <<>>

(* C5: when the credentials hold no scope, generateJWT fails and produces  *)
(* no assertion.                                                           *)
C5_NoScopeFails ==
    (JwtCalled /\ NoScopeGiven) =>
        /\ jwt = Undef
        /\ pc = "done" => (raised # Undef /\ raised.stage = "assertion")

KeyImportFailed == raised # Undef /\ raised.message = ErrImport
ImportReturnedKey == pc \in {"sign", "exchange", "fetch"} \/ jwt # Undef

(* C6: importPrivateKey first imports the decoded bytes as PKCS#8; only    *)
(* when that call is rejected does it convert the bytes and import a       *)
(* second time; it returns the key of the first call that succeeds and     *)
(* fails with the key-import error only when both calls were rejected.     *)
C6_TwoStageImport ==
    /\ Len(attempts) <= 2
    /\ Len(attempts) >= 1 => ~attempts[1].data.wrapped
    /\ Len(attempts) = 2 =>
          /\ attempts[1].result = "rejected"
          /\ attempts[2].data = [attempts[1].data EXCEPT !.wrapped = TRUE]
    /\ ImportReturnedKey =>
          /\ attempts # <<>>
          /\ attempts[Len(attempts)].result = "ok"
          /\ \A i \in 1..(Len(attempts) - 1) : attempts[i].result = "rejected"
    /\ KeyImportFailed <=>
          (Len(attempts) = 2 /\ \A i \in 1..2 : attempts[i].result = "rejected")

C6_Witness ==
    /\ pc = "sign"
    /\ Len(attempts) = 2
    /\ attempts[1].result = "rejected"
    /\ attempts[2].result = "ok"

\* a PEM body that is no base64 text: a character outside the alphabet,
\* padding that is misplaced, too long or on a length that is no multiple of
\* 4, or a length no byte sequence encodes to
NotBase64(s) ==
    \/ \E i \in 1..Len(s) : s[i] \notin {"A", "="}
    \/ \E i \in 1..(Len(s) - 1) : s[i] = "=" /\ s[i + 1] # "="
    \/ TrailingPads(s) > 2
    \/ TrailingPads(s) > 0 /\ Len(s) % 4 # 0
    \/ (Len(s) - TrailingPads(s)) % 4 = 1

PemFormatErrors == {ErrInvalidChars, ErrBase64}

(* C7: for PEM text whose body, after the delimiter lines and white space  *)
(* are stripped, is not valid base64, importPrivateKey fails before any    *)
(* importKey call, with an error other than the one raised when both       *)
(* import calls are rejected.                                              *)
C7_BadBase64FailsBeforeImport ==
    (JwtCalled /\ GivenCred.privateKey.t = "str"
               /\ NotBase64(pemContents(GivenCred.privateKey.v))) =>
        /\ pc = "done"
        /\ raised # Undef
        /\ raised.stage = "assertion"
        /\ raised.message \in PemFormatErrors
        /\ raised.message # ErrImport
        /\ attempts = <<>>

C7_Witness ==
    /\ pc = "done"
    /\ raised # Undef
    /\ raised.message = ErrBase64
    /\ "HDR" \in Range(GivenCred.privateKey.v)
    /\ attempts = <<>>

(* C8: generateAccessToken finishes generateJWT before exchangeJWTForToken *)
(* starts: no request is sent when the assertion fails, the request sent   *)
(* carries the finished assertion, and a failure of either stage reaches   *)
(* the caller as the error that stage raised, with no token result.        *)
C8_AssertionThenExchange ==
    caller = "generateAccessToken" =>
        /\ Len(requests) <= 1
        /\ requests # <<>> => (jwt # Undef /\ requests[1].body.jwt_token = jwt)
        /\ (raised # Undef /\ raised.stage = "assertion") => requests = <<>>
        /\ (pc = "done" /\ raised # Undef) => outcome = Throw(raised.message)
        /\ (pc = "done" /\ raised = Undef) => (outcome.t = "ok" /\ requests # <<>>)

C8_Witness ==
    /\ caller = "generateAccessToken"
    /\ pc = "done"
    /\ raised # Undef
    /\ raised.stage = "exchange"
    /\ relayResponse.t = "http"
    /\ outcome.t = "throw"

\* the stage a caller reads off what it got: an error of the exchange begins
\* with the exchange prefix; the settings page shows the exchange modal
StageToldBy(o) ==
    IF o.t = "throw"
    THEN IF Head(o.error) = ExchangePrefix THEN "exchange" ELSE "assertion"
    ELSE IF o.className = "token-status" THEN "exchange" ELSE "assertion"

(* C9: whenever the issuance fails, what the caller gets tells the stage   *)
(* that failed: assertion building or the token exchange.                  *)
C9_StageDistinguishable ==
    (pc = "done" /\ raised # Undef) => StageToldBy(outcome) = raised.stage

C9_Witness ==
    /\ pc = "done"
    /\ raised # Undef
    /\ raised.stage = "exchange"
    /\ relayResponse.t = "reject"

\* the relay's answer is non-2xx, or its body has a (non-empty) error field
RelayRefused ==
    /\ relayResponse.t = "http"
    /\ \/ ~responseOk(relayResponse)
       \/ Truthy(Get(relayResponse.body, "error"))

(* C10: when the relay's answer is non-2xx or its body has an error field, *)
(* exchangeJWTForToken fails, returns no token, and the error it raises    *)
(* carries the HTTP status and the response body.                          *)
C10_ExchangeErrorCarriesStatusAndBody ==
    (pc = "done" /\ relayResponse # Undef /\ RelayRefused) =>
        /\ raised # Undef
        /\ raised.stage = "exchange"
        /\ Num(relayResponse.status) \in Range(raised.message)
        /\ relayResponse.body \in Range(raised.message)

(***************************************************************************)
(* The requests of the settings page (js/utils.js) and the relay of the    *)
(* development server (server/server.js).                                  *)
(***************************************************************************)
\* utils.js lines 1521-1544: envData, read from the form; the fields that
\* hold no credential are left as the page loads them
envData(form) ==
    [ AEM_HOST |-> Str(<<>>), AEM_DELIVERY_URL |-> Str(<<>>), AEM_REPOSITORY_ID |-> Str(<<>>),
      IMS_ORG |-> formValue(form.imsOrg),
      API_KEY |-> formValue(form.clientId),
      CLIENT_SECRET |-> formValue(form.clientSecret),
      TECHNICAL_ACCOUNT_ID |-> formValue(form.technicalAccountId),
      TECHNICAL_ACCOUNT_EMAIL |-> Str(<<>>),
      IMS_ENDPOINT |-> Or(formValue(form.imsEndpoint), DefaultImsEndpoint),
      METASCOPES |-> Or(formValue(form.metascopes), DefaultMetascopes),
      ACCESS_TOKEN |-> Str(<<>>),
      BROWSE_PATH |-> Str(<<DamRoot>>), UPLOAD_PATH |-> Str(<<>>),
      DOWNLOAD_PATH |-> Str(<<>>), SAVE_PATH |-> Str(<<>>) ]

\* utils.js lines 1548-1554: the request saveSettings sends
saveSettingsRequest(form) ==
    [ url |-> "/api/env", method |-> "POST", contentType |-> "application/json",
      body |-> envData(form) ]

\* utils.js lines 1575-1585: the auth section saveSettings hands to saveConfig
authConfig(form) ==
    LET env == envData(form) IN
    [ imsOrg |-> env.IMS_ORG, apiKey |-> env.API_KEY, clientSecret |-> env.CLIENT_SECRET,
      technicalAccountId |-> env.TECHNICAL_ACCOUNT_ID,
      technicalAccountEmail |-> env.TECHNICAL_ACCOUNT_EMAIL,
      privateKey |-> formValue(form.privateKey),
      imsEndpoint |-> env.IMS_ENDPOINT, metascopes |-> env.METASCOPES,
      accessToken |-> env.ACCESS_TOKEN ]

\* utils.js lines 1518-1612: saveSettings posts envData and saves the config
SaveSettings ==
    /\ caller = "settings"
    /\ Len(requests) < MaxRequests
    /\ requests' = Append(requests, saveSettingsRequest(cred))
    /\ savedAuth' = authConfig(cred)
    /\ UNCHANGED <<laterVars, pc, caller, cred, nowMs, payload, attempts, jwt, relayResponse, raised,
                   outcome, relayLog, forwarded, metaVars, listVars, entityVars, codecVars>>

\* URLSearchParams.get: the value of a field, null when the form has none
paramsGet(body, name) == IF name \in DOMAIN body THEN body[name] ELSE Null

\* the request the relay makes upstream (server.js lines 373-386 and 408-409)
upstreamRequest(req) ==
    [ hostname |-> Or(paramsGet(req.body, "ims_endpoint"), DefaultImsEndpoint),
      port |-> 443, path |-> "/ims/exchange/jwt", method |-> "POST",
      contentType |-> "application/x-www-form-urlencoded", body |-> req.body ]

\* handleIMSProxy without the method test of lines 362-366
handleIMSProxyAnyMethod(req) == [status |-> "upstream", upstream |-> <<upstreamRequest(req)>>]

\* server.js lines 361-412: 405 for anything but POST, else the body goes upstream
\* and the answer is the upstream's
handleIMSProxy(req) ==
    IF req.method # "POST" THEN [status |-> "405", upstream |-> <<>>]
    ELSE [status |-> "upstream", upstream |-> <<upstreamRequest(req)>>]

\* server.js lines 37-66: preflight is answered at once, then the path decides
routeRequest(req) ==
    IF req.method = "OPTIONS" THEN [status |-> "200", upstream |-> <<>>]
    ELSE IF req.url = "/ims/exchange/jwt" THEN handleIMSProxy(req)
    ELSE [status |-> "other handler", upstream |-> <<>>]

\* requests that reach the server from elsewhere
ForeignRequests ==
    { [ url |-> "/ims/exchange/jwt", method |-> m, contentType |-> "application/x-www-form-urlencoded",
        body |-> b ] :
        m \in {"GET", "OPTIONS", "POST"},
        b \in { [x \in {} |-> Undef], [jwt_token |-> Str(<<"j">>), ims_endpoint |-> Str(<<>>)] } }

\* the server handles a request: one the page sent, or one from elsewhere
ServerHandles ==
    /\ Len(relayLog) < MaxHandled
    /\ \E req \in Range(requests) \cup ForeignRequests :
         LET answer == routeRequest(req) IN
         /\ relayLog' = Append(relayLog, [request |-> req, status |-> answer.status])
         /\ forwarded' = forwarded \o answer.upstream
    /\ UNCHANGED <<laterVars, pc, tokenVars, savedAuth, metaVars, listVars, entityVars, codecVars>>

\* the credentials of the runs with a server
RelayCredentials ==
    { CredentialsWith(k, b, m, e) :
        k \in {GoodPem, Str(<<"!">>)},
        b \in {"pkcs8", "pkcs1"},
        m \in {Undef},
        e \in {Undef, Str(<<"ims.example">>)} }

InitRelay ==
    /\ pc = "start"
    /\ caller \in Callers
    /\ cred \in RelayCredentials
    /\ nowMs = 1999
    /\ payload = EmptyObject
    /\ attempts = <<>>
    /\ jwt = Undef
    /\ requests = <<>>
    /\ relayResponse = Undef
    /\ raised = Undef
    /\ outcome = Undef
    /\ MetaIdle
    /\ ListIdle
    /\ EntityIdle
    /\ CodecIdle
    /\ RelayIdle
    /\ LaterIdle

NextRelay ==
    \/ GenerateJWT
    \/ ImportKeySettles
    \/ ImportConvertedKeySettles
    \/ SignSettles
    \/ ExchangeJWTForToken
    \/ FetchSettles
    \/ SaveSettings
    \/ ServerHandles

SpecRelay == InitRelay /\ [][NextRelay]_vars

\* the private key as given and as the settings page reads it
KeyTexts == {x \in {cred.privateKey, formValue(cred.privateKey)} : Truthy(x)}

ExchangeRequests == {i \in 1..Len(requests) : requests[i].url = "/ims/exchange/jwt"}

\* the values a request body carries, those inside the assertion included
BodyValues(body) ==
    {body[k] : k \in DOMAIN body}
    \cup UNION { IF body[k].t = "jwt"
                 THEN {body[k].payload[c] : c \in DOMAIN body[k].payload}
                 ELSE {} : k \in DOMAIN body }

(* C11: the issuance sends at most one request, a form-encoded POST to     *)
(* /ims/exchange/jwt with exactly the fields client_id, client_secret,     *)
(* jwt_token and ims_endpoint; no request the page sends (token exchange   *)
(* or settings save) carries the private key; and the relay sends a body   *)
(* upstream, to the host ims_endpoint names and the path                   *)
(* /ims/exchange/jwt, only for a POST request.                             *)
C11_OnlyTheExchangeRequest ==
    /\ Cardinality(ExchangeRequests) <= 1
    /\ (pc = "fetch") => Cardinality(ExchangeRequests) = 1
    /\ \A i \in 1..Len(requests) :
         /\ requests[i].url \in {"/ims/exchange/jwt", "/api/env"}
         /\ requests[i].url = "/api/env" => caller = "settings"
         /\ requests[i].method = "POST"
         /\ i \in ExchangeRequests =>
              /\ requests[i].contentType = "application/x-www-form-urlencoded"
              /\ DOMAIN requests[i].body
                   = {"client_id", "client_secret", "jwt_token", "ims_endpoint"}
         /\ BodyValues(requests[i].body) \cap KeyTexts = {}
    /\ Len(forwarded) = Cardinality({i \in 1..Len(relayLog) : relayLog[i].status = "upstream"})
    /\ \A i \in 1..Len(relayLog) :
         relayLog[i].status = "upstream" =>
            /\ relayLog[i].request.method = "POST"
            /\ relayLog[i].request.url = "/ims/exchange/jwt"
    /\ \A i \in 1..Len(forwarded) :
         /\ forwarded[i].path = "/ims/exchange/jwt"
         /\ forwarded[i].method = "POST"
         /\ \E j \in 1..Len(relayLog) :
              /\ relayLog[j].request.body = forwarded[i].body
              /\ relayLog[j].request.method = "POST"
              /\ forwarded[i].hostname
                   = Or(paramsGet(forwarded[i].body, "ims_endpoint"), DefaultImsEndpoint)

C11_Witness ==
    /\ pc = "fetch"
    /\ caller = "settings"
    /\ Len(requests) = 2
    /\ Len(forwarded) = 1
    /\ forwarded[1].body = requests[CHOOSE i \in ExchangeRequests : TRUE].body
    /\ forwarded[1].hostname = Str(<<"ims.example">>)
    /\ \E i \in 1..Len(relayLog) : relayLog[i].status = "405"

(***************************************************************************)
(* The text layer of the token issuer (js/token-generator.js): signJWT,    *)
(* base64UrlEncode, decodeJWT, isTokenExpired and convertPKCS1ToPKCS8.     *)
(* A string is a sequence of UTF-16 code units, a byte array a sequence of *)
(* numbers 0..255.  A character of base64 text is written as its index in  *)
(* the alphabet A-Za-z0-9+/ (62 is '+', 63 is '/'); the other characters   *)
(* of an assertion have the codes below.  An object is the sequence of its *)
(* entries <<key, value>>, in insertion order.                             *)
(***************************************************************************)
Plus == 62
Slash == 63
Pad == 64          \* '='
Dash == 65         \* '-'
Underscore == 66   \* '_'
Dot == 67          \* '.'
Bang == 68         \* a character outside both alphabets

Bytes(bs) == [t |-> "bytes", v |-> bs]
Entries(es) == [t |-> "entries", v |-> es]

\* unescape(encodeURIComponent(data)): one character per UTF-8 byte
RECURSIVE utf8Bytes(_)
utf8Bytes(text) ==
    IF text = <<>> THEN <<>>
    ELSE LET c == Head(text)
             enc == IF c < 128 THEN <<c>>
                    ELSE IF c < 2048 THEN <<192 + (c \div 64), 128 + (c % 64)>>
                    ELSE <<224 + (c \div 4096), 128 + ((c \div 64) % 64), 128 + (c % 64)>>
         IN enc \o utf8Bytes(Tail(text))

\* btoa of a binary string: three bytes give four characters, the rest is padded
RECURSIVE btoa(_)
btoa(bs) ==
    IF bs = <<>> THEN <<>>
    ELSE IF Len(bs) = 1
    THEN <<bs[1] \div 4, (bs[1] % 4) * 16, Pad, Pad>>
    ELSE IF Len(bs) = 2
    THEN <<bs[1] \div 4, (bs[1] % 4) * 16 + (bs[2] \div 16), (bs[2] % 16) * 4, Pad>>
    ELSE <<bs[1] \div 4, (bs[1] % 4) * 16 + (bs[2] \div 16),
           (bs[2] % 16) * 4 + (bs[3] \div 64), bs[3] % 64>>
         \o btoa(SubSeq(bs, 4, Len(bs)))

\* .replace(/=+$/, '')
RECURSIVE stripPads(_)
stripPads(s) ==
    IF s # <<>> /\ s[Len(s)] = Pad THEN stripPads(SubSeq(s, 1, Len(s) - 1)) ELSE s

\* lines 173-190: base64UrlEncode of a string or of an ArrayBuffer
base64UrlEncode(data) ==
    LET base64 == IF data.t = "str" THEN btoa(utf8Bytes(data.v)) ELSE btoa(data.v)
        dashed == [i \in 1..Len(base64) |->
                      IF base64[i] = Plus THEN Dash
                      ELSE IF base64[i] = Slash THEN Underscore ELSE base64[i]]
    IN stripPads(dashed)

\* the decimal digits of a natural number
RECURSIVE digitsOf(_)
digitsOf(n) == IF n < 10 THEN <<48 + n>> ELSE Append(digitsOf(n \div 10), 48 + (n % 10))

\* JSON.stringify of a string without characters to escape, a number, a boolean
stringifyValue(x) ==
    CASE x.t = "str" -> <<34>> \o x.v \o <<34>>
      [] x.t = "num" -> digitsOf(x.v)
      [] x.t = "bool" -> IF x.v THEN <<116, 114, 117, 101>> ELSE <<102, 97, 108, 115, 101>>

RECURSIVE stringifyEntries(_)
stringifyEntries(entries) ==
    IF entries = <<>> THEN <<>>
    ELSE <<34>> \o Head(entries)[1] \o <<34, 58>> \o stringifyValue(Head(entries)[2])
         \o (IF Len(entries) > 1 THEN <<44>> ELSE <<>>)
         \o stringifyEntries(Tail(entries))

\* JSON.stringify of an object: {"key":value,...}
JSONstringify(object) == <<123>> \o stringifyEntries(object.v) \o <<125>>

\* the first position from i on that holds c, 0 when there is none
IndexFrom(text, i, c) ==
    IF \E j \in i..Len(text) : text[j] = c
    THEN CHOOSE j \in i..Len(text) : text[j] = c /\ \A k \in i..(j - 1) : text[k] # c
    ELSE 0

\* the last position of the run of decimal digits that starts at i (i - 1 when
\* there is no digit at i)
DigitsEnd(text, i) ==
    LET ends == {j \in i..Len(text) : \A k \in i..j : text[k] \in 48..57}
    IN IF ends = {} THEN i - 1 ELSE CHOOSE j \in ends : \A k \in ends : k <= j

RECURSIVE numberOf(_)
numberOf(digits) ==
    IF digits = <<>> THEN 0
    ELSE 10 * numberOf(SubSeq(digits, 1, Len(digits) - 1)) + (digits[Len(digits)] - 48)

SyntaxError == Throw("SyntaxError")

\* a later entry for a key replaces the value of the earlier one
SetEntry(entries, key, value) ==
    IF \E i \in 1..Len(entries) : entries[i][1] = key
    THEN [i \in 1..Len(entries) |-> IF entries[i][1] = key THEN <<key, value>> ELSE entries[i]]
    ELSE Append(entries, <<key, value>>)

\* JSON.parse of the text of an object whose values are strings, numbers and
\* booleans; a string holds no escape and no control character
RECURSIVE parseMember(_, _, _)
RECURSIVE parseAfterValue(_, _, _)
parseMember(text, i, acc) ==
    IF i > Len(text) \/ text[i] # 34 THEN SyntaxError
    ELSE LET k == IndexFrom(text, i + 1, 34) IN
         IF k = 0 \/ k + 2 > Len(text) \/ text[k + 1] # 58 THEN SyntaxError
         ELSE LET key == SubSeq(text, i + 1, k - 1)
                  v == k + 2
              IN IF \E x \in Range(key) : x < 32 \/ x = 92 THEN SyntaxError
                 ELSE IF text[v] = 34
                 THEN LET e == IndexFrom(text, v + 1, 34) IN
                      IF e = 0 THEN SyntaxError
                      ELSE IF \E x \in Range(SubSeq(text, v + 1, e - 1)) : x < 32 \/ x = 92
                      THEN SyntaxError
                      ELSE parseAfterValue(text, e + 1,
                               SetEntry(acc, key, Str(SubSeq(text, v + 1, e - 1))))
                 ELSE IF v + 3 <= Len(text) /\ SubSeq(text, v, v + 3) = <<116, 114, 117, 101>>
                 THEN parseAfterValue(text, v + 4, SetEntry(acc, key, Bool(TRUE)))
                 ELSE IF v + 4 <= Len(text) /\ SubSeq(text, v, v + 4) = <<102, 97, 108, 115, 101>>
                 THEN parseAfterValue(text, v + 5, SetEntry(acc, key, Bool(FALSE)))
                 ELSE LET e == DigitsEnd(text, v) IN
                      IF e < v \/ (e > v /\ text[v] = 48) THEN SyntaxError
                      ELSE parseAfterValue(text, e + 1,
                               SetEntry(acc, key, Num(numberOf(SubSeq(text, v, e)))))

parseAfterValue(text, i, acc) ==
    IF i > Len(text) THEN SyntaxError
    ELSE IF text[i] = 125 THEN (IF i = Len(text) THEN Entries(acc)
                                ELSE SyntaxError)
    ELSE IF text[i] = 44 THEN parseMember(text, i + 1, acc)
    ELSE SyntaxError

JSONparse(text) ==
    IF text = <<>> \/ text[1] # 123 THEN SyntaxError
    ELSE IF text = <<123, 125>> THEN Entries(<<>>)
    ELSE parseMember(text, 2, <<>>)

\* the bytes of base64 text without padding
RECURSIVE sextetsToBytes(_)
sextetsToBytes(s) ==
    IF Len(s) < 2 THEN <<>>
    ELSE IF Len(s) = 2 THEN <<s[1] * 4 + (s[2] \div 16)>>
    ELSE IF Len(s) = 3
    THEN <<s[1] * 4 + (s[2] \div 16), (s[2] % 16) * 16 + (s[3] \div 4)>>
    ELSE <<s[1] * 4 + (s[2] \div 16), (s[2] % 16) * 16 + (s[3] \div 4),
           (s[3] % 4) * 64 + s[4]>>
         \o sextetsToBytes(SubSeq(s, 5, Len(s)))

\* atob (forgiving-base64 decode): up to two '=' are removed from the end of a
\* text whose length is a multiple of 4; what is left must not have length 1
\* mod 4 and must consist of base64 characters.  The result is a binary
\* string: one character per byte.
atob(s) ==
    LET pads == IF Len(s) % 4 = 0
                THEN (IF Len(s) >= 2 /\ s[Len(s)] = Pad /\ s[Len(s) - 1] = Pad THEN 2
                      ELSE IF Len(s) >= 1 /\ s[Len(s)] = Pad THEN 1 ELSE 0)
                ELSE 0
        data == SubSeq(s, 1, Len(s) - pads)
    IN IF Len(data) % 4 = 1 \/ \E i \in 1..Len(data) : data[i] \notin 0..63
       THEN Throw("InvalidCharacterError")
       ELSE Str(sextetsToBytes(data))

\* .replace(/-/g, '+').replace(/_/g, '/')
fromUrlAlphabet(s) ==
    [i \in 1..Len(s) |-> IF s[i] = Dash THEN Plus ELSE IF s[i] = Underscore THEN Slash ELSE s[i]]

\* JSON.parse(atob(part.replace(...).replace(...)))
decodeSegment(part) ==
    LET binary == atob(fromUrlAlphabet(part)) IN
    IF IsThrow(binary) THEN binary ELSE JSONparse(binary.v)

\* lines 286-300: decodeJWT; every failure leaves as 'Failed to decode JWT: ...'
decodeJWT(tokenText) ==
    LET parts == Split(tokenText, Dot) IN
    IF Len(parts) # 3 THEN Throw("Failed to decode JWT: Invalid JWT format")
    ELSE LET header == decodeSegment(parts[1])
             body == decodeSegment(parts[2])
         IN IF IsThrow(header) \/ IsThrow(body) THEN Throw("Failed to decode JWT: ")
            ELSE [t |-> "ok", header |-> header, payload |-> body]

\* payload.exp
expOf(object) ==
    LET entries == object.v IN
    IF \E i \in 1..Len(entries) : entries[i][1] = <<101, 120, 112>>
    THEN entries[CHOOSE i \in 1..Len(entries) : entries[i][1] = <<101, 120, 112>>][2]
    ELSE Undef

\* isTokenExpired with the comparison turned round
isTokenExpiredTurned(tokenText, dateNow) ==
    LET d == decodeJWT(tokenText) IN
    IF IsThrow(d) THEN TRUE
    ELSE LET exp == expOf(d.payload) IN
         IF exp.t # "num" THEN FALSE ELSE dateNow <= exp.v * 1000

\* lines 305-313: isTokenExpired; a payload without a numeric exp gives NaN,
\* and every comparison with NaN is false
isTokenExpired(tokenText, dateNow) ==
    LET d == decodeJWT(tokenText) IN
    IF IsThrow(d) THEN TRUE
    ELSE LET exp == expOf(d.payload) IN
         IF exp.t # "num" THEN FALSE ELSE dateNow >= exp.v * 1000

\* line 25-28: the header generateJWT signs, {alg: 'RS256', typ: 'JWT'}
JwtHeader ==
    Entries(<< <<(<<97, 108, 103>>), Str(<<82, 83, 50, 53, 54>>)>>,
               <<(<<116, 121, 112>>), Str(<<74, 87, 84>>)>> >>)

\* lines 56-75: the text signJWT returns once the key is imported and
\* crypto.subtle.sign has given signatureBytes
signJWT(header, body, signatureBytes) ==
    LET encodedHeader == base64UrlEncode(Str(JSONstringify(header)))
        encodedPayload == base64UrlEncode(Str(JSONstringify(body)))
        signingInput == encodedHeader \o <<Dot>> \o encodedPayload
        encodedSignature == base64UrlEncode(Bytes(signatureBytes))
    IN signingInput \o <<Dot>> \o encodedSignature

\* lines 142-150: pkcs8Header, with both length fields still zero
pkcs8Header ==
    << 48, 130, 0, 0,
       2, 1, 0,
       48, 13,
       6, 9,
       42, 134, 72, 134, 247, 13, 1, 1, 1,
       5, 0,
       4, 130, 0, 0 >>

\* convertPKCS1ToPKCS8 with the outer length counting its own four bytes
convertPKCS1ToPKCS8BytesWholeLength(pkcs1Bytes) ==
    LET pkcs1Length == pkcs1Bytes.length
        totalLength == Len(pkcs8Header) + pkcs1Length
    IN [ length |-> totalLength + 4,
         head |-> [pkcs8Header EXCEPT ![3] = (totalLength \div 256) % 256,
                                      ![4] = totalLength % 256,
                                      ![Len(pkcs8Header) - 1] = (pkcs1Length \div 256) % 256,
                                      ![Len(pkcs8Header)] = pkcs1Length % 256],
         body |-> [offset |-> Len(pkcs8Header), bytes |-> pkcs1Bytes] ]

\* lines 140-168: convertPKCS1ToPKCS8.  The result is the Uint8Array of
\* totalLength + 4 bytes: head is what pkcs8.set(pkcs8Header) and the four
\* assignments leave at its start (index k of the code is position k + 1,
\* an element keeps the low eight bits), body the bytes
\* pkcs8.set(pkcs1Bytes, pkcs8Header.length) copies and where they start
convertPKCS1ToPKCS8Bytes(pkcs1Bytes) ==
    LET pkcs1Length == pkcs1Bytes.length
        totalLength == Len(pkcs8Header) + pkcs1Length - 4
    IN [ length |-> totalLength + 4,
         head |-> [pkcs8Header EXCEPT ![3] = (totalLength \div 256) % 256,
                                      ![4] = totalLength % 256,
                                      ![Len(pkcs8Header) - 1] = (pkcs1Length \div 256) % 256,
                                      ![Len(pkcs8Header)] = pkcs1Length % 256],
         body |-> [offset |-> Len(pkcs8Header), bytes |-> pkcs1Bytes] ]

\* the payloads signJWT is given: exp, iss and one scope entry
ExpKey == <<101, 120, 112>>
IssKey == <<105, 115, 115>>
ScopeEntryKey == <<115>>
IssChars == {97, 62, 233}
ClaimInputs ==
    { Entries(<< <<ExpKey, Num(e)>>, <<IssKey, Str(org)>>, <<ScopeEntryKey, Bool(TRUE)>> >>) :
        e \in {1, 12}, org \in SeqsUpTo(IssChars, MaxIssLen) }
    \cup { Entries(<< <<IssKey, Str(<<97>>)>> >>) }
SignatureInputs == SeqsUpTo({251, 255}, MaxSigLen)
ClockInputs == {999, 1001, 12000}

\* the PKCS#1 payloads: length bytes, byte i being (first + i) mod 256
Pkcs1Lengths == {0, 1, 255, 256, 1190, 65513, 65514, 65535}
Pkcs1Inputs == { [length |-> n, first |-> b] : n \in Pkcs1Lengths, b \in {0, 200} }

\* what may be handed to isTokenExpired in place of the assertion
Manglings ==
    {"none", "no signature", "one more segment", "two segments joined", "bad character",
     "payload cut by 1", "payload cut by 2", "payload cut by 3", "empty"}

Mangled(tokenText, how) ==
    LET parts == Split(tokenText, Dot)
        cut(k) == parts[1] \o <<Dot>> \o SubSeq(parts[2], 1, Len(parts[2]) - k)
                  \o <<Dot>> \o parts[3]
    IN CASE how = "none" -> tokenText
         [] how = "no signature" -> parts[1] \o <<Dot>> \o parts[2]
         [] how = "one more segment" -> tokenText \o <<Dot>> \o parts[3]
         [] how = "two segments joined" -> parts[1] \o parts[2] \o <<Dot>> \o parts[3]
         [] how = "bad character" -> parts[1] \o <<Dot, Bang>> \o parts[2] \o <<Dot>> \o parts[3]
         [] how = "payload cut by 1" -> cut(1)
         [] how = "payload cut by 2" -> cut(2)
         [] how = "payload cut by 3" -> cut(3)
         [] how = "empty" -> <<>>

InitCodec ==
    /\ pc = "start"
    /\ \/ /\ claims \in ClaimInputs
          /\ signature \in SignatureInputs
          /\ clock \in ClockInputs
          /\ pkcs1In = Undef
       \/ /\ claims = Undef
          /\ signature = <<>>
          /\ clock = 0
          /\ pkcs1In \in Pkcs1Inputs
    /\ assertion = <<>>
    /\ presented = Undef
    /\ decodeOut = Undef
    /\ expiredOut = Undef
    /\ pkcs8Out = Undef
    /\ MetaIdle
    /\ ListIdle
    /\ TokenIdle
    /\ EntityIdle
    /\ RelayIdle
    /\ LaterIdle

SignJWT ==
    /\ pc = "start"
    /\ claims # Undef
    /\ assertion' = signJWT(JwtHeader, claims, signature)
    /\ pc' = "signed"
    /\ UNCHANGED <<laterVars, claims, signature, presented, clock, decodeOut, expiredOut, pkcs1In, pkcs8Out,
                   metaVars, listVars, tokenVars, entityVars, relayVars>>

DecodeJWT ==
    /\ pc = "signed"
    /\ presented' = [text |-> assertion, how |-> "none"]
    /\ decodeOut' = decodeJWT(assertion)
    /\ pc' = "decoded"
    /\ UNCHANGED <<laterVars, claims, signature, assertion, clock, expiredOut, pkcs1In, pkcs8Out,
                   metaVars, listVars, tokenVars, entityVars, relayVars>>

IsTokenExpired ==
    /\ pc = "signed"
    /\ \E how \in Manglings :
         /\ presented' = [text |-> Mangled(assertion, how), how |-> how]
         /\ expiredOut' = isTokenExpired(Mangled(assertion, how), clock)
    /\ pc' = "checked"
    /\ UNCHANGED <<laterVars, claims, signature, assertion, clock, decodeOut, pkcs1In, pkcs8Out,
                   metaVars, listVars, tokenVars, entityVars, relayVars>>

ConvertPKCS1ToPKCS8 ==
    /\ pc = "start"
    /\ claims = Undef
    /\ pkcs8Out' = convertPKCS1ToPKCS8Bytes(pkcs1In)
    /\ pc' = "done"
    /\ UNCHANGED <<laterVars, claims, signature, assertion, presented, clock, decodeOut, expiredOut,
                   pkcs1In, metaVars, listVars, tokenVars, entityVars, relayVars>>

NextCodec ==
    \/ SignJWT
    \/ DecodeJWT
    \/ IsTokenExpired
    \/ ConvertPKCS1ToPKCS8

SpecCodec == InitCodec /\ [][NextCodec]_vars

\* the exp that was signed, and the characters an assertion may consist of
SignedExp == expOf(claims)
Base64UrlChars == (0..61) \cup {Dash, Underscore}

(* C12: isTokenExpired returns true for a token whose payload exp is in    *)
(* the past, false for one whose exp is in the future, and true for every  *)
(* malformed token text (not three dot-separated segments, or a segment    *)
(* that does not decode to JSON).                                          *)
C12_ExpiredWhenPastOrMalformed ==
    pc = "checked" =>
        /\ (presented.how = "none" /\ SignedExp.t = "num" /\ SignedExp.v * 1000 < clock)
              => expiredOut = TRUE
        /\ (presented.how = "none" /\ SignedExp.t = "num" /\ SignedExp.v * 1000 > clock)
              => expiredOut = FALSE
        /\ presented.how # "none" => expiredOut = TRUE

C12_Witness ==
    /\ pc = "checked"
    /\ presented.how = "none"
    /\ SignedExp = Num(12)
    /\ clock = 1001
    /\ expiredOut = FALSE
    /\ 233 \in Range(claims.v[2][2].v)

(* C13: every assertion signJWT returns is three dot-joined base64url      *)
(* segments, none holding '+', '/' or '=', and decodeJWT of it gives back  *)
(* the header {alg: RS256, typ: JWT} and the payload that was signed.      *)
C13_ThreeSegmentsRoundTrip ==
    pc = "decoded" =>
        /\ Len(Split(assertion, Dot)) = 3
        /\ \A i \in 1..Len(assertion) : assertion[i] \in Base64UrlChars \cup {Dot}
        /\ decodeOut.t = "ok"
        /\ decodeOut.header = JwtHeader
        /\ decodeOut.payload = claims

\* the two length fields of the result, and the other bytes of the prefix
OuterLength == pkcs8Out.head[3] * 256 + pkcs8Out.head[4]
OctetStringLength == pkcs8Out.head[25] * 256 + pkcs8Out.head[26]
PrefixAndPayloadKept ==
    /\ pkcs8Out.length = 26 + pkcs1In.length
    /\ Len(pkcs8Out.head) = 26
    /\ \A i \in (1..26) \ {3, 4, 25, 26} : pkcs8Out.head[i] = pkcs8Header[i]
    /\ pkcs8Out.body = [offset |-> 26, bytes |-> pkcs1In]

(* C14 as stated: for a PKCS#1 payload of n bytes convertPKCS1ToPKCS8      *)
(* returns the 26-byte prefix followed by the payload unchanged, the outer *)
(* SEQUENCE length is the number of bytes after that field (n + 22) and    *)
(* the OCTET STRING length is n, for every n that fits in 16 bits.         *)
C14_LengthsExactUpTo16Bits ==
    pc = "done" =>
        /\ PrefixAndPayloadKept
        /\ OuterLength = pkcs1In.length + 22
        /\ OuterLength = pkcs8Out.length - 4
        /\ OctetStringLength = pkcs1In.length

(* C14 as amended: the prefix and the payload are as stated and the OCTET  *)
(* STRING length is n for every n that fits in 16 bits; the outer SEQUENCE *)
(* length is n + 22 for every n up to 65513, and n + 22 modulo 65536 for   *)
(* the larger n.                                                           *)
C14_LengthsExactWhileTheyFit ==
    pc = "done" =>
        /\ PrefixAndPayloadKept
        /\ OctetStringLength = pkcs1In.length
        /\ OuterLength = (pkcs1In.length + 22) % 65536
        /\ pkcs1In.length <= 65513 =>
              /\ OuterLength = pkcs1In.length + 22
              /\ OuterLength = pkcs8Out.length - 4

C14_Witness ==
    /\ pc = "done"
    /\ pkcs1In.length = 65513
    /\ OuterLength = 65535
    /\ OctetStringLength = 65513

(***************************************************************************)
(* normalizeAsset on one entity (js/config.js), over entities whose        *)
(* properties and links are present, absent or malformed.                  *)
(***************************************************************************)
\* the href of a link: tokens of a URL; "%20" is an escape and "%" a
\* percent sign that starts none
HrefValues ==
    { Undef,
      Str(<<"https://host", ApiAssets, "/folder", "/a.jpg", DotJson>>),
      Str(<<"https://host", ApiAssets, "/folder", "%20", "/a.jpg", DotJson, "?x=1">>),
      Str(<<"https://host", ApiAssets, "/a.jpg", "%", DotJson>>),
      Str(<<"https://host", "/folder", "/a.jpg">>),
      Str(<<"https://host", ApiAssets, "?x=1", "/a.jpg", DotJson>>) }

RelValues ==
    { Undef, List(<<Str(<<"self">>)>>), List(<<Str(<<"thumbnail">>), Str(<<"content">>)>>),
      Num(1) }

LinkValues == { PayloadOf(("rel" :> r) @@ ("href" :> h)) : r \in RelValues, h \in HrefValues }

LinksValues ==
    {Undef, Str(<<"x">>)} \cup {List(ls) : ls \in SeqsUpTo(LinkValues, MaxLinks)}

PropertiesValues ==
    { Undef, Obj(EmptyObject), Str(<<"x">>),
      Obj([name |-> Str(<<"b">>)]),
      Obj([fmUuid |-> Str(<<"u1">>), name |-> Str(<<"a.jpg">>),
           metadata |-> Obj("dc:title" :> Str(<<"T">>))]) }

EntityInputs ==
    { PayloadOf(("properties" :> p) @@ ("links" :> l)) :
        p \in PropertiesValues, l \in LinksValues }

InitEntity ==
    /\ pc = "start"
    /\ entityIn \in EntityInputs
    /\ entityOut = Undef
    /\ MetaIdle
    /\ ListIdle
    /\ TokenIdle
    /\ CodecIdle
    /\ RelayIdle
    /\ LaterIdle

NormalizeAsset ==
    /\ pc = "start"
    /\ entityOut' = normalizeAsset(entityIn)
    /\ pc' = "done"
    /\ UNCHANGED <<laterVars, entityIn, metaVars, listVars, tokenVars, codecVars, relayVars>>

NextEntity == NormalizeAsset

SpecEntity == InitEntity /\ [][NextEntity]_vars

\* the links of the entity when they are a list of links whose rel is a list
\* or absent and whose href is a string or absent
GivenLinks == Or(Get(entityIn, "links"), List(<<>>))
LinksWellTyped ==
    /\ GivenLinks.t = "list"
    /\ \A i \in 1..Len(GivenLinks.v) :
         /\ GivenLinks.v[i].t = "obj"
         /\ Get(GivenLinks.v[i], "rel").t \in {"undef", "list"}
         /\ Get(GivenLinks.v[i], "href").t \in {"undef", "str"}

\* the links tagged self, and the URL of the first of them
SelfLinks ==
    {i \in 1..Len(GivenLinks.v) :
        /\ Get(GivenLinks.v[i], "rel").t = "list"
        /\ Str(<<"self">>) \in Range(Get(GivenLinks.v[i], "rel").v)}
SelfUrl ==
    IF SelfLinks = {} THEN Undef
    ELSE Get(GivenLinks.v[CHOOSE i \in SelfLinks : \A j \in SelfLinks : i <= j], "href")

\* the URL reads .../api/assets<path>.json, <path> beginning with '/' and
\* holding no '?': the positions of /api/assets and of .json
UrlForm(url) ==
    {ij \in (1..Len(url)) \X (1..Len(url)) :
        /\ ij[1] + 1 < ij[2]
        /\ url[ij[1]] = ApiAssets
        /\ url[ij[2]] = DotJson
        /\ url[ij[1] + 1] \in SlashTokens
        /\ \A k \in (ij[1] + 1)..(ij[2] - 1) : url[k] \notin QueryTokens}

\* URL-decoding of the tokens of a path
UrlDecoded(tokens) == [i \in 1..Len(tokens) |-> IF tokens[i] = "%20" THEN " " ELSE tokens[i]]

(* C17: normalizeAsset takes the path from the link tagged self: when its  *)
(* URL reads .../api/assets<path>.json the path is /content/dam followed   *)
(* by the URL-decoded <path>, and when there is no self link or its URL    *)
(* does not read so the path is the empty string.                          *)
C17_PathFromSelfLink ==
    (pc = "done" /\ LinksWellTyped) =>
        /\ entityOut.t = "obj"
        /\ IF SelfUrl.t = "str" /\ UrlForm(SelfUrl.v) # {}
           THEN \E ij \in UrlForm(SelfUrl.v) :
                   Get(entityOut, "path")
                     = Str(<<DamRoot>> \o UrlDecoded(SubSeq(SelfUrl.v, ij[1] + 1, ij[2] - 1)))
           ELSE Get(entityOut, "path") = Str(<<>>)

(* C20: normalizeAsset does not throw for an entity that is an object,     *)
(* whatever its properties and links are: absent, a link without rel, a    *)
(* self link whose path is not validly URL-encoded, links that are no      *)
(* list.                                                                   *)
C20_NeverThrowsOnOptionalFields ==
    (pc = "done" /\ entityIn.t = "obj") => ~IsThrow(entityOut)

\* which shape normalizeListResponse took for the payload
TookEntities == pc = "done" /\ listOut.t = "ok" /\ HasEntitiesList
TookChildren == pc = "done" /\ listOut.t = "ok" /\ HasChildrenList /\ ~HasEntitiesList
GivenEntities == Get(listIn, "entities").v
GivenChildren == Get(listIn, "children").v
PagingTotal == OptGet(OptGet(Get(listIn, "properties"), "srn:paging"), "total")

\* the identifier the source gives for asset i: the UUID field of an entity,
\* the id field of a child
SourceId(i) ==
    IF HasEntitiesList THEN OptGet(OptGet(GivenEntities[i], "properties"), "fmUuid")
    ELSE Get(GivenChildren[i], "id")

(* C15: the id of every asset normalizeListResponse produces is the        *)
(* identifier the source gives (the UUID field of an entity, the id field  *)
(* of a child) and, when the source gives none, the asset's name.          *)
C15_IdFromSourceOrName ==
    (TookEntities \/ TookChildren) =>
        \A i \in 1..Len(listOut.assets) :
            Get(listOut.assets[i], "id")
              = IF SourceId(i) # Undef THEN SourceId(i) ELSE Get(listOut.assets[i], "name")

(* C16: the path of every asset normalizeListResponse produces, in any of  *)
(* the three shapes, begins with /content/dam.                             *)
C16_PathBeginsWithDamRoot ==
    (pc = "done" /\ listOut.t = "ok") =>
        \A i \in 1..Len(listOut.assets) :
            LET path == Get(listOut.assets[i], "path") IN
            /\ path.t = "str"
            /\ path.v # <<>>
            /\ Head(path.v) = DamRoot

(* C18 as stated: an empty entities list gives no assets and total 0; for  *)
(* a non-empty entities list the total is the nested paging total whenever *)
(* that property is present, and the length of the list otherwise.         *)
C18_TotalFromPagingIfPresent ==
    TookEntities =>
        /\ GivenEntities = <<>> => (listOut.assets = <<>> /\ listOut.total = Num(0))
        /\ GivenEntities # <<>> =>
              listOut.total = IF PagingTotal # Undef THEN PagingTotal
                              ELSE Num(Len(GivenEntities))

(* C18 as amended: an empty entities list gives no assets and no error;    *)
(* for every entities list the total is the nested paging total when that  *)
(* property is present and not zero, and the length of the list otherwise  *)
(* (0 for an empty list without a non-zero paging total).                  *)
C18_TotalFromNonZeroPaging ==
    (pc = "done" /\ HasEntitiesList) =>
        /\ GivenEntities = <<>> => (listOut.t = "ok" /\ listOut.assets = <<>>)
        /\ listOut.t = "ok" =>
              listOut.total = IF PagingTotal # Undef /\ PagingTotal # Num(0) THEN PagingTotal
                              ELSE Num(Len(GivenEntities))

C18_Witness ==
    /\ TookEntities
    /\ Len(GivenEntities) = 2
    /\ PagingTotal = Num(7)
    /\ listOut.total = Num(7)

(* C19: in the children shape normalizeListResponse returns one asset per  *)
(* child, in order, with id and name taken from the child's own fields     *)
(* (the id is the child's id, its name when it has no id); the path of a   *)
(* child without explicit path is /content/dam joined with its name.       *)
C19_ChildrenShape ==
    TookChildren =>
        /\ Len(listOut.assets) = Len(GivenChildren)
        /\ \A i \in 1..Len(GivenChildren) :
             LET child == GivenChildren[i]
                 asset == listOut.assets[i]
             IN /\ Get(asset, "metadata") = child
                /\ Get(asset, "name") = Get(child, "name")
                /\ Get(asset, "id") = IF Get(child, "id") # Undef THEN Get(child, "id")
                                      ELSE Get(child, "name")
                /\ Get(child, "path") = Undef =>
                     Get(asset, "path")
                       = Str(<<DamRoot, "/">> \o ToStringTokens(Get(child, "name")))
                /\ Get(child, "path") # Undef => Get(asset, "path") = Get(child, "path")

C19_Witness ==
    /\ TookChildren
    /\ GivenChildren = <<ChildFull, ChildPath>>
    /\ Get(listOut.assets[1], "path") = Str(<<DamRoot, "/", "a.jpg">>)
    /\ Get(listOut.assets[1], "id") = Str(<<"1">>)
    /\ Get(listOut.assets[2], "id") = Str(<<"b">>)

(***************************************************************************)
(* The normalizers on payloads that are no object.                         *)
(***************************************************************************)
NotAMapping == listIn.t # "obj"
FailedWithShapeError == IsThrow(listOut) /\ listOut.error = "ShapeError"

(* C21: normalizeListResponse fails with a shape error naming the expected *)
(* shapes when the payload is no object at all (null, undefined, a string, *)
(* a number), and it fails in no other case.                               *)
C21_ShapeErrorIffNotAMapping ==
    pc = "done" /\ listOut # Undef =>
        /\ NotAMapping => FailedWithShapeError
        /\ IsThrow(listOut) => NotAMapping

\* the namespace the data model gives a key: what stands before its first
\* ':' delimiter, the reserved namespace for a key without delimiter
FirstColon(key) == CHOOSE i \in 1..Len(key) : key[i] = ":" /\ \A j \in 1..(i - 1) : key[j] # ":"
StatedNamespace(key) ==
    IF ":" \in Range(key) THEN SubSeq(key, 1, FirstColon(key) - 1) ELSE DefaultNamespace
FiledUnder(key, ns) == ns \in DOMAIN schema.namespaces /\ key \in DOMAIN schema.namespaces[ns]

(* C22: normalizeMetadataSchema files every surviving key under the        *)
(* namespace that is the part of the key before its first ':', and every   *)
(* key without ':' under the reserved namespace _default.                  *)
C22_FiledUnderPrefixNamespace ==
    pc = "done" =>
        \A key \in DOMAIN schema.properties : FiledUnder(key, StatedNamespace(key))

\* the keys the data model drops: reserved prefix, and none of the two
\* display keys and the two structural keys
HasReservedPrefix(key) == Len(key) >= 2 /\ key[1] = "jcr" /\ key[2] = ":"
KeptReservedKeys == {JcrTitle, JcrDescription, JcrPrimaryType, JcrMixinTypes}
IsDroppedKey(key) == HasReservedPrefix(key) /\ key \notin KeptReservedKeys
InputValue(key) == metaIn[CHOOSE i \in 1..Len(metaIn) : metaIn[i][1] = key][2]

(* C23: normalizeMetadataSchema drops from the all-properties mapping      *)
(* exactly the keys with the reserved prefix jcr: that are none of         *)
(* jcr:title, jcr:description, jcr:primaryType, jcr:mixinTypes; every      *)
(* other input key is in the mapping with its input value.                 *)
C23_DropsExactlyInternalKeys ==
    pc = "done" =>
        /\ DOMAIN schema.properties = {key \in InputKeys : ~IsDroppedKey(key)}
        /\ \A key \in DOMAIN schema.properties : schema.properties[key] = InputValue(key)

C23_Witness ==
    /\ pc = "done"
    /\ InputKeys = {<<"jcr", ":", "created">>, JcrPrimaryType, <<"custom">>}
    /\ DOMAIN schema.properties = {JcrPrimaryType, <<"custom">>}
    /\ schema.properties[<<"custom">>] = "v2"

(***************************************************************************)
(* The network calls: AEMAssetAPI.request (js/config.js) and the fetch of  *)
(* exchangeJWTForToken (js/token-generator.js).  Time is counted in units  *)
(* of the timer; the caller's abort request is recorded, and neither call  *)
(* hands a signal of the caller to fetch.                                  *)
(***************************************************************************)
MaxElapsed == 3

APIError(message, status) == [name |-> "APIError", message |-> message, status |-> status]
AbortError == [name |-> "AbortError", message |-> <<Str(<<"The user aborted a request.">>)>>, status |-> 0]
FailedToFetch == [name |-> "TypeError", message |-> <<Str(<<"Failed to fetch">>)>>, status |-> 0]

\* config.js lines 280-293: the response of fetch, inside the try block
requestTry(response) ==
    IF ~responseOk(response)
    THEN Throw(APIError(<<Str(<<"API request failed: ">>), Num(response.status)>>, response.status))
    ELSE [t |-> "ok", value |-> response.body]

\* config.js lines 295-300: catch (error)
requestCatch(error) ==
    IF error.name = "AbortError" THEN Throw(APIError(<<Str(<<"Request timeout">>)>>, 408))
    ELSE Throw(error)

\* config.js lines 271-300: what request returns or throws when fetch settles
requestSettles(settled) ==
    IF settled.t = "reject" THEN requestCatch(settled.error)
    ELSE LET tried == requestTry(settled) IN
         IF IsThrow(tried) THEN requestCatch(tried.error) ELSE tried

\* token-generator.js lines 213-240: what exchangeJWTForToken returns or
\* throws when fetch settles; its errors are all new Error(...)
exchangeSettles(settled) ==
    LET got == exchangeOutcome(settled) IN
    IF IsThrow(got) THEN Throw([name |-> "Error", message |-> got.error, status |-> 0])
    ELSE got

callSettles(call, settled) ==
    IF call.kind = "request" THEN requestSettles(settled) ELSE exchangeSettles(settled)

\* what the server may answer to a request of the API client
ApiResponses ==
    {[t |-> "http", status |-> st, body |-> b] :
        st \in {200, 404, 408}, b \in {Obj(EmptyObject), Str(<<"text">>), Null}}

\* the call made: a request of an API client built with a timeout, or the
\* token exchange
NetCalls ==
    {[kind |-> "request", timeout |-> n] : n \in 1..MaxElapsed} \cup {[kind |-> "exchange"]}

HasTimer(call) == call.kind = "request"

earlierVars == <<pc, metaVars, listVars, tokenVars, entityVars, codecVars, relayVars>>
EarlierIdle ==
    /\ pc = "start"
    /\ MetaIdle /\ ListIdle /\ TokenIdle /\ EntityIdle /\ CodecIdle /\ RelayIdle

besidesNet == <<earlierVars, demoVars, cfgVars, updVars, selVars, fileVars>>

InitNet ==
    /\ netCall \in NetCalls
    /\ netPhase = "idle"
    /\ netElapsed = 0
    /\ netCause = "none"
    /\ callerAborted = FALSE
    /\ netOut = Undef
    /\ EarlierIdle
    /\ DemoIdle
    /\ CfgIdle
    /\ UpdIdle
    /\ SelIdle
    /\ FileIdle

\* config.js lines 268-276, token-generator.js line 214: fetch is called,
\* request arms its timer first
CallFetch ==
    /\ netPhase = "idle"
    /\ netPhase' = "inflight"
    /\ UNCHANGED <<netCall, netElapsed, netCause, callerAborted, netOut, besidesNet>>

\* time passes while the fetch is pending; the timer of request is due at
\* its timeout
TimePasses ==
    /\ netPhase = "inflight"
    /\ netElapsed < MaxElapsed
    /\ HasTimer(netCall) => netElapsed < netCall.timeout
    /\ netElapsed' = netElapsed + 1
    /\ UNCHANGED <<netCall, netPhase, netCause, callerAborted, netOut, besidesNet>>

\* config.js line 269: the timer callback runs controller.abort(), fetch
\* rejects with an AbortError
TimerAborts ==
    /\ netPhase = "inflight"
    /\ HasTimer(netCall)
    /\ netElapsed >= netCall.timeout
    /\ netCause' = "timer"
    /\ netOut' = callSettles(netCall, [t |-> "reject", error |-> AbortError])
    /\ netPhase' = "done"
    /\ UNCHANGED <<netCall, netElapsed, callerAborted, besidesNet>>

\* the transport fails: fetch rejects with a TypeError
TransportFails ==
    /\ netPhase = "inflight"
    /\ netCause' = "transport"
    /\ netOut' = callSettles(netCall, [t |-> "reject", error |-> FailedToFetch])
    /\ netPhase' = "done"
    /\ UNCHANGED <<netCall, netElapsed, callerAborted, besidesNet>>

\* the server answers
ResponseArrives ==
    /\ netPhase = "inflight"
    /\ \E r \in IF netCall.kind = "request" THEN ApiResponses
                 ELSE {x \in RelayResponses : x.t = "http"} :
         netOut' = callSettles(netCall, r)
    /\ netCause' = "response"
    /\ netPhase' = "done"
    /\ UNCHANGED <<netCall, netElapsed, callerAborted, besidesNet>>

\* the caller asks for the call to be aborted: request passes fetch its own
\* controller's signal (line 275, after the spread of options), the token
\* exchange passes none, so the pending fetch is not told
CallerAborts ==
    /\ netPhase = "inflight"
    /\ ~callerAborted
    /\ callerAborted' = TRUE
    /\ UNCHANGED <<netCall, netPhase, netElapsed, netCause, netOut, besidesNet>>

NextNet ==
    \/ CallFetch
    \/ TimePasses
    \/ TimerAborts
    \/ TransportFails
    \/ ResponseArrives
    \/ CallerAborts

SpecNet == InitNet /\ [][NextNet]_vars

\* the kind of error the caller of a network call gets
IsTimeoutError(e) == e.name = "APIError" /\ e.message = <<Str(<<"Request timeout">>)>>
IsNetworkError(e) == e.name = "TypeError"
IsCancellation(e) == e.name = "AbortError"

(* C24: a network call that exceeds its timeout ends with a timeout error, *)
(* one whose transport fails with a network error, one whose caller asked  *)
(* for an abort while it was in flight with a cancellation error, and no   *)
(* error is of two of these kinds.                                         *)
C24_ThreeErrorKinds ==
    netPhase = "done" =>
        /\ netCause = "timer" /\ ~callerAborted => IsThrow(netOut) /\ IsTimeoutError(netOut.error)
        /\ netCause = "transport" /\ ~callerAborted =>
              IsThrow(netOut) /\ IsNetworkError(netOut.error)
        /\ callerAborted => IsThrow(netOut) /\ IsCancellation(netOut.error)
        /\ IsThrow(netOut) =>
              Cardinality({k \in {"timeout", "network", "cancel"} :
                              CASE k = "timeout" -> IsTimeoutError(netOut.error)
                                [] k = "network" -> IsNetworkError(netOut.error)
                                [] OTHER -> IsCancellation(netOut.error)}) <= 1

(***************************************************************************)
(* Demo mode: listAssets and getMetadata (js/config.js) when the request   *)
(* fails.                                                                  *)
(***************************************************************************)
\* lines 977-980 with both settings required to be missing
isDemoModeBothMissing(config) ==
    ~Truthy(config.host) /\ ~Truthy(config.accessToken)

\* lines 977-980
isDemoMode(config) ==
    ~Truthy(config.host) \/ ~Truthy(config.accessToken)

\* lines 985-1022: limit mock assets under path
getMockAssets(path, limit) ==
    [t |-> "ok", mock |-> TRUE, total |-> Num(limit), value |-> path]

\* lines 1027-1042
getMockMetadata(path) ==
    [t |-> "ok", mock |-> TRUE, total |-> Num(1), value |-> path]

\* lines 600-617
normalizeMetadataResponse(response) ==
    IF Nullish(response) THEN Throw("TypeError")
    ELSE [t |-> "ok", value |-> Or(Get(response, "properties"), response)]

\* lines 342-343 and 472-473: the try block
demoTry(call, settled) ==
    LET result == requestSettles(settled)
        normalized == IF call.op = "listAssets" THEN normalizeListResponse(result.value)
                      ELSE normalizeMetadataResponse(result.value)
    IN IF IsThrow(result) THEN result
       ELSE IF IsThrow(normalized)
       THEN Throw([name |-> normalized.error, message |-> <<>>, status |-> 0])
       ELSE [t |-> "ok", mock |-> FALSE, total |-> Num(0), value |-> result.value]

\* lines 344-350 and 474-479: catch (error)
demoCatch(call, error) ==
    IF isDemoMode(call.config)
    THEN IF call.op = "listAssets" THEN getMockAssets(call.path, call.limit)
         ELSE getMockMetadata(call.path)
    ELSE Throw(error)

DemoConfigs ==
    {[host |-> h, accessToken |-> a] :
        h \in {Str(<<>>), Str(<<"https://aem">>)},
        a \in {Str(<<>>), Str(<<"tok">>), Undef}}

DemoCalls ==
    {[op |-> "listAssets", path |-> Str(<<DamRoot>>), limit |-> n, config |-> c] :
        n \in {1, 20}, c \in DemoConfigs}
    \cup {[op |-> "getMetadata", path |-> Str(<<DamRoot, "/a.jpg">>), limit |-> 0, config |-> c] :
            c \in DemoConfigs}

besidesDemo == <<earlierVars, netVars, cfgVars, updVars, selVars, fileVars>>

InitDemo ==
    /\ demoCall \in DemoCalls
    /\ demoPhase = "idle"
    /\ demoFailure = Undef
    /\ demoOut = Undef
    /\ EarlierIdle
    /\ NetIdle
    /\ CfgIdle
    /\ UpdIdle
    /\ SelIdle
    /\ FileIdle

\* lines 342 and 472: await this.request(endpoint, { method: 'GET' })
DemoRequest ==
    /\ demoPhase = "idle"
    /\ demoPhase' = "inflight"
    /\ UNCHANGED <<demoCall, demoFailure, demoOut, besidesDemo>>

\* the request settles and listAssets / getMetadata returns or throws
DemoSettles ==
    /\ demoPhase = "inflight"
    /\ \E settled \in ApiResponses \cup {[t |-> "reject", error |-> e] :
                                          e \in {AbortError, FailedToFetch}} :
         LET tried == demoTry(demoCall, settled) IN
         IF IsThrow(tried)
         THEN /\ demoFailure' = tried.error
              /\ demoOut' = demoCatch(demoCall, tried.error)
         ELSE /\ demoFailure' = Undef
              /\ demoOut' = tried
    /\ demoPhase' = "done"
    /\ UNCHANGED <<demoCall, besidesDemo>>

NextDemo == DemoRequest \/ DemoSettles

SpecDemo == InitDemo /\ [][NextDemo]_vars

HostAndTokenConfigured ==
    /\ demoCall.config.host.t = "str" /\ demoCall.config.host.v # <<>>
    /\ demoCall.config.accessToken.t = "str" /\ demoCall.config.accessToken.v # <<>>

(* C25: when no AEM host or no access token is configured, a listAssets or *)
(* getMetadata call whose request fails returns mock data instead of       *)
(* raising; when both are configured the failure is re-raised to the       *)
(* caller and no mock data is returned.                                    *)
C25_MockDataOnlyInDemoMode ==
    demoPhase = "done" /\ demoFailure # Undef =>
        IF HostAndTokenConfigured
        THEN IsThrow(demoOut) /\ demoOut.error = demoFailure
        ELSE ~IsThrow(demoOut) /\ demoOut.mock

C25_Witness ==
    /\ demoPhase = "done"
    /\ demoFailure # Undef
    /\ demoCall.op = "getMetadata"
    /\ demoCall.config.host = Str(<<"https://aem">>)
    /\ demoCall.config.accessToken = Undef
    /\ demoOut.t = "ok" /\ demoOut.mock

(***************************************************************************)
(* ConfigManager (js/config.js).  A configuration is an object whose       *)
(* sections are objects; the spread { ...DEFAULT_CONFIG } copies the       *)
(* references of the sections, so a section of this.config is either the   *)
(* section object of DEFAULT_CONFIG itself or an object of its own.  Two   *)
(* sections are modelled, server (host) and auth (accessToken, apiKey).    *)
(***************************************************************************)
MaxCalls == 3

\* lines 9-52: DEFAULT_CONFIG as the script defines it
OriginalDefaults ==
    [ server |-> [host |-> Str(<<>>)],
      auth |-> [accessToken |-> Str(<<>>), apiKey |-> Str(<<>>)] ]

Sections == DOMAIN OriginalDefaults

\* a section of this.config: the default's object, or an own object
DefaultsObject == [ref |-> "default"]
OwnObject(fields) == [ref |-> "own", v |-> fields]

\* { ...a, ...b } on objects modelled as functions
Spread(a, b) == [k \in (DOMAIN a) \cup (DOMAIN b) |-> IF k \in DOMAIN b THEN b[k] ELSE a[k]]

\* delete obj[key]
Delete(obj, key) == [k \in (DOMAIN obj) \ {key} |-> obj[k]]

\* the fields of a section of a configuration, read through its reference
FieldsOf(defaults, config, sec) ==
    IF config[sec].ref = "default" THEN defaults[sec] ELSE config[sec].v

\* lines 112-114: getConfig, read down to the fields
getConfig(defaults, config) == [sec \in Sections |-> FieldsOf(defaults, config, sec)]

\* lines 81-93: mergeConfig(DEFAULT_CONFIG, stored) for a stored object
\* whose sections are objects: a stored section becomes a new object, the
\* others stay the default's objects
mergeConfig(defaults, stored) ==
    [sec \in Sections |->
        IF sec \in DOMAIN stored THEN OwnObject(Spread(defaults[sec], stored[sec]))
        ELSE DefaultsObject]

\* lines 66-75: loadConfig
loadConfig(defaults, stored) ==
    IF stored # Undef THEN mergeConfig(defaults, stored.v)
    ELSE [sec \in Sections |-> DefaultsObject]

\* lines 98-107: saveConfig; JSON.stringify reads the sections' fields
saveConfig(defaults, stored) ==
    LET merged == mergeConfig(defaults, stored)
    IN [defaults |-> defaults, config |-> merged,
        storage |-> Obj(getConfig(defaults, merged))]

\* obj[field] = value on the object a section refers to
Assign(defaults, config, sec, field, value) ==
    IF config[sec].ref = "default"
    THEN [defaults |-> [defaults EXCEPT ![sec] = Put(@, field, value)], config |-> config]
    ELSE [defaults |-> defaults,
          config |-> [config EXCEPT ![sec] = OwnObject(Put(@.v, field, value))]]

\* delete on the object a section refers to
DeleteIn(defaults, config, sec, field) ==
    IF config[sec].ref = "default"
    THEN [defaults |-> [defaults EXCEPT ![sec] = Delete(@, field)], config |-> config]
    ELSE [defaults |-> defaults,
          config |-> [config EXCEPT ![sec] = OwnObject(Delete(@.v, field))]]

\* lines 132-146: set('section.field', value)
set(defaults, config, sec, field, value) ==
    LET assigned == Assign(defaults, config, sec, field, value)
    IN saveConfig(assigned.defaults, getConfig(assigned.defaults, assigned.config))

\* lines 148-155: resetConfig
resetConfig(defaults) ==
    [defaults |-> defaults, config |-> [sec \in Sections |-> DefaultsObject], storage |-> Undef]

\* lines 160-165: exportConfig; exportData.auth is the object this.config.auth
\* refers to
exportConfig(defaults, config) ==
    LET deleted == DeleteIn(defaults, config, "auth", "accessToken")
    IN [defaults |-> deleted.defaults, config |-> deleted.config,
        json |-> Obj(getConfig(deleted.defaults, deleted.config))]

\* lines 184-203: validate
validate(defaults, config) ==
    LET c == getConfig(defaults, config)
        has(sec, field) == field \in DOMAIN c[sec] /\ Truthy(c[sec][field])
    IN SelectSeq(<<"AEM Host URL is required", "Access Token is required",
                   "API Key is required">>,
                 LAMBDA e : CASE e = "AEM Host URL is required" -> ~has("server", "host")
                              [] e = "Access Token is required" -> ~has("auth", "accessToken")
                              [] OTHER -> ~has("auth", "apiKey"))

\* lines 208-214: getApiHeaders
getApiHeaders(defaults, config) ==
    LET auth == getConfig(defaults, config)["auth"]
        field(f) == IF f \in DOMAIN auth THEN auth[f] ELSE Undef
    IN [ Authorization |-> <<"Bearer ">> \o ToStringTokens(field("accessToken")),
         xApiKey |-> field("apiKey") ]

\* what a caller sees of the ConfigManager
Observed(defaults, config) ==
    [ getConfig |-> getConfig(defaults, config),
      validate |-> validate(defaults, config),
      getApiHeaders |-> getApiHeaders(defaults, config) ]

\* the inputs of set, saveConfig and importConfig
SetInputs ==
    { <<"server", "host", Str(<<"https://aem">>)>>,
      <<"auth", "accessToken", Str(<<"tok">>)>>,
      <<"auth", "apiKey", Str(<<"key">>)>> }
ConfigInputs ==
    { [server |-> [host |-> Str(<<"https://aem">>)]],
      [auth |-> [accessToken |-> Str(<<"tok">>), apiKey |-> Str(<<"key">>)]] }
\* the JSON texts given to importConfig: of an object, or no JSON at all
ImportInputs == {[t |-> "json", v |-> c] : c \in ConfigInputs} \cup {[t |-> "text"]}
\* the item an earlier session left in localStorage, if any
StoredInputs ==
    {Undef, Obj([server |-> [host |-> Str(<<"https://aem">>)],
                 auth |-> [accessToken |-> Str(<<"old">>), apiKey |-> Str(<<"key">>)]])}

besidesCfg == <<earlierVars, netVars, demoVars, updVars, selVars, fileVars>>

\* lines 56-59 and 228: the script is evaluated and the manager constructed
InitCfg ==
    /\ cfgDefaults = OriginalDefaults
    /\ cfgStorage \in StoredInputs
    /\ cfgConfig = loadConfig(OriginalDefaults, cfgStorage)
    /\ cfgBefore = Undef
    /\ cfgLastOp = "none"
    /\ cfgHistory = <<>>
    /\ cfgExport = Undef
    /\ EarlierIdle
    /\ NetIdle
    /\ DemoIdle
    /\ UpdIdle
    /\ SelIdle
    /\ FileIdle

\* a call of the manager: what the caller saw before it, and which call
Called(op) ==
    /\ Len(cfgHistory) < MaxCalls
    /\ cfgBefore' = Observed(cfgDefaults, cfgConfig)
    /\ cfgLastOp' = op
    /\ cfgHistory' = Append(cfgHistory, op)

Becomes(after) ==
    /\ cfgDefaults' = after.defaults
    /\ cfgConfig' = after.config
    /\ cfgStorage' = after.storage

Set ==
    /\ Called("set")
    /\ \E in \in SetInputs : Becomes(set(cfgDefaults, cfgConfig, in[1], in[2], in[3]))
    /\ UNCHANGED <<cfgExport, besidesCfg>>

SaveConfig ==
    /\ Called("saveConfig")
    /\ \E c \in ConfigInputs : Becomes(saveConfig(cfgDefaults, c))
    /\ UNCHANGED <<cfgExport, besidesCfg>>

\* lines 170-178: importConfig
ImportConfig ==
    /\ Called("importConfig")
    /\ \E in \in ImportInputs :
         IF in.t = "json" THEN Becomes(saveConfig(cfgDefaults, in.v))
         ELSE UNCHANGED <<cfgDefaults, cfgConfig, cfgStorage>>
    /\ UNCHANGED <<cfgExport, besidesCfg>>

ResetConfig ==
    /\ Called("resetConfig")
    /\ Becomes(resetConfig(cfgDefaults))
    /\ UNCHANGED <<cfgExport, besidesCfg>>

ExportConfig ==
    /\ Called("exportConfig")
    /\ LET after == exportConfig(cfgDefaults, cfgConfig) IN
         /\ cfgDefaults' = after.defaults
         /\ cfgConfig' = after.config
         /\ cfgExport' = after.json
    /\ UNCHANGED <<cfgStorage, besidesCfg>>

NextCfg ==
    \/ Set
    \/ SaveConfig
    \/ ImportConfig
    \/ ResetConfig
    \/ ExportConfig

SpecCfg == InitCfg /\ [][NextCfg]_vars

(* C26: exportConfig only removes the access token from the exported JSON: *)
(* after any call of exportConfig the configuration held by the manager,   *)
(* auth.accessToken included, is what it was before the call, and          *)
(* getConfig, validate and getApiHeaders give the same results as before.  *)
C26_ExportLeavesConfig ==
    cfgLastOp = "exportConfig" =>
        /\ "accessToken" \notin DOMAIN cfgExport.v["auth"]
        /\ Observed(cfgDefaults, cfgConfig) = cfgBefore

(* C27: after any sequence of set, saveConfig, importConfig and            *)
(* resetConfig calls that ends with resetConfig, getConfig returns the     *)
(* original default values in every section.                               *)
C27_ResetRestoresDefaults ==
    cfgLastOp = "resetConfig" /\ "exportConfig" \notin Range(cfgHistory) =>
        getConfig(cfgDefaults, cfgConfig) = OriginalDefaults

(***************************************************************************)
(* The update-metadata relay of the development server (server/server.js): *)
(* handleUpdateMetadata and updateAssetMetadata.  An https.request ends in *)
(* one of three ways: the response is read to its end (the 'end' event of  *)
(* the response), the request fails before a response (the 'error' event   *)
(* of the request), or the connection closes after the response began, in  *)
(* which case neither event is emitted.                                    *)
(***************************************************************************)
\* the hosts new URL() accepts, among those the inputs are drawn from
ValidUrls == {Str(<<"https://author.example">>)}

\* lines 713-727: the token taken from the answer of the CSRF request
csrfTokenOf(csrfRes) ==
    IF csrfRes.status = 200
    THEN IF csrfRes.body.t = "str" \/ Nullish(csrfRes.body) THEN Str(<<>>)
         ELSE Get(csrfRes.body, "token")
    ELSE Str(<<>>)

\* lines 748-780: the PUT updateAssetMetadata sends
metadataPut(body, csrfToken) ==
    [ method |-> "PUT",
      host |-> Get(body, "aemHost"),
      path |-> <<ApiAssets>> \o Get(body, "assetPath").v,
      properties |-> Get(body, "metadata"),
      csrfHeader |-> IF Truthy(csrfToken) THEN csrfToken ELSE Undef ]

\* lines 794-824: the answer to the client for the status AEM gave
clientResponse(aemStatus) ==
    [ status |-> aemStatus,
      body |-> CASE aemStatus = 200 -> "Metadata updated successfully"
                 [] aemStatus = 404 -> "Asset not found at the provided path"
                 [] aemStatus = 412 -> "Root collection cannot be found or accessed"
                 [] OTHER -> "Update failed with status" ]

\* lines 662-684 and 736-740: the answer handleUpdateMetadata gives without
\* a request to AEM, if any
refusal(request) ==
    IF request.method # "PUT"
    THEN [status |-> 405, body |-> "Method not allowed. Use PUT."]
    ELSE IF request.body.t # "obj"
    THEN [status |-> 400, body |-> "Invalid request"]
    ELSE IF ~Truthy(Get(request.body, "aemHost")) \/ ~Truthy(Get(request.body, "assetPath"))
            \/ ~Truthy(Get(request.body, "metadata"))
    THEN [status |-> 400, body |-> "Missing required fields: aemHost, assetPath, metadata"]
    ELSE IF Get(request.body, "aemHost") \notin ValidUrls
    THEN [status |-> 400, body |-> "Invalid request"]
    ELSE Undef

\* the requests of the client
UpdateBodies ==
    { Str(<<"{">>),
      Obj([aemHost |-> Str(<<"https://author.example">>), assetPath |-> Str(<<"/a.jpg">>)]),
      Obj([aemHost |-> Str(<<"author.example">>), assetPath |-> Str(<<"/a.jpg">>),
           metadata |-> Obj([title |-> Str(<<"T">>)])]),
      Obj([aemHost |-> Str(<<"https://author.example">>), assetPath |-> Str(<<"/a.jpg">>),
           metadata |-> Obj([title |-> Str(<<"T">>)])]),
      Obj([aemHost |-> Str(<<"https://author.example">>), assetPath |-> Str(<<"/f", "/b.png">>),
           metadata |-> Obj([title |-> Str(<<"U">>)]),
           authorization |-> Str(<<"Bearer tok">>)]),
      Obj([aemHost |-> Str(<<"https://author.example">>), assetPath |-> Str(<<"/a.jpg">>),
           metadata |-> Obj([title |-> Str(<<"T">>)]),
           authorization |-> Str(<<"Bearer tok">>), apiKey |-> Str(<<"key">>)]) }
UpdateRequests == {[method |-> m, body |-> b] : m \in {"PUT", "POST"}, b \in UpdateBodies}

\* what AEM may answer to the CSRF request and to the PUT
CsrfAnswers ==
    {[status |-> st, body |-> b] :
        st \in {200, 403},
        b \in {Obj([token |-> Str(<<"csrf">>)]), Obj(EmptyObject), Str(<<"<html>">>)}}
AemStatuses == {200, 404, 412, 500}

besidesUpd == <<earlierVars, netVars, demoVars, cfgVars, selVars, fileVars>>

InitUpd ==
    /\ updRequest \in UpdateRequests
    /\ updPhase = "received"
    /\ updCsrf = [how |-> "none", status |-> 0]
    /\ updPuts = <<>>
    /\ updResponses = <<>>
    /\ EarlierIdle
    /\ NetIdle
    /\ DemoIdle
    /\ CfgIdle
    /\ SelIdle
    /\ FileIdle

\* lines 662-734, 736-740: the request has been read; it is refused, or the
\* CSRF request is sent
HandleUpdateMetadata ==
    /\ updPhase = "received"
    /\ IF refusal(updRequest) # Undef
       THEN /\ updResponses' = Append(updResponses, refusal(updRequest))
            /\ updPhase' = "done"
       ELSE /\ updPhase' = "csrf"
            /\ UNCHANGED updResponses
    /\ UNCHANGED <<updRequest, updCsrf, updPuts, besidesUpd>>

\* lines 748-837, up to proxyReq.end()
UpdateAssetMetadata(csrfToken) ==
    /\ updPuts' = Append(updPuts, metadataPut(updRequest.body, csrfToken))
    /\ updPhase' = "put"

\* lines 704-724: the answer to the CSRF request has been read to its end
CsrfResponseEnds ==
    /\ updPhase = "csrf"
    /\ \E csrfRes \in CsrfAnswers :
         /\ UpdateAssetMetadata(csrfTokenOf(csrfRes))
         /\ updCsrf' = [how |-> "ended", status |-> csrfRes.status]
    /\ UNCHANGED <<updRequest, updResponses, besidesUpd>>

\* lines 727-731: the CSRF request failed
CsrfRequestErrors ==
    /\ updPhase = "csrf"
    /\ UpdateAssetMetadata(Str(<<>>))
    /\ updCsrf' = [how |-> "errored", status |-> 0]
    /\ UNCHANGED <<updRequest, updResponses, besidesUpd>>

\* the connection of the CSRF request closes while its answer is being
\* read: no 'end' of the response, no 'error' of the request, and no
\* listener of the code runs
CsrfConnectionCloses ==
    /\ updPhase = "csrf"
    /\ \E st \in {200, 403} : updCsrf' = [how |-> "closed", status |-> st]
    /\ updPhase' = "silent"
    /\ UNCHANGED <<updRequest, updPuts, updResponses, besidesUpd>>

\* lines 782-825: the answer to the PUT has been read to its end
PutResponseEnds ==
    /\ updPhase = "put"
    /\ \E st \in AemStatuses : updResponses' = Append(updResponses, clientResponse(st))
    /\ updPhase' = "done"
    /\ UNCHANGED <<updRequest, updCsrf, updPuts, besidesUpd>>

\* lines 828-832: the PUT failed
PutRequestErrors ==
    /\ updPhase = "put"
    /\ updResponses' = Append(updResponses, [status |-> 502, body |-> "Proxy error"])
    /\ updPhase' = "done"
    /\ UNCHANGED <<updRequest, updCsrf, updPuts, besidesUpd>>

\* the connection of the PUT closes while its answer is being read
PutConnectionCloses ==
    /\ updPhase = "put"
    /\ updPhase' = "silent"
    /\ UNCHANGED <<updRequest, updCsrf, updPuts, updResponses, besidesUpd>>

NextUpd ==
    \/ HandleUpdateMetadata
    \/ CsrfResponseEnds
    \/ CsrfRequestErrors
    \/ CsrfConnectionCloses
    \/ PutResponseEnds
    \/ PutRequestErrors
    \/ PutConnectionCloses

SpecUpd == InitUpd /\ [][NextUpd]_vars

\* a PUT request that carries aemHost, assetPath and metadata
CarriesAllFields ==
    /\ updRequest.method = "PUT"
    /\ updRequest.body.t = "obj"
    /\ {"aemHost", "assetPath", "metadata"} \subseteq DOMAIN updRequest.body.v
\* no event of the handling is left to come
HandlingOver == updPhase \in {"done", "silent"}

(* C28: for every PUT request to /api/update-metadata that carries         *)
(* aemHost, assetPath and metadata the server sends the metadata PUT to    *)
(* AEM exactly once, only after the CSRF-token request has ended or        *)
(* errored, and it sends exactly one response to the client.               *)
C28_OnePutOneResponse ==
    CarriesAllFields =>
        /\ Len(updPuts) <= 1 /\ Len(updResponses) <= 1
        /\ Len(updPuts) = 1 => updCsrf.how \in {"ended", "errored"}
        /\ HandlingOver => Len(updPuts) = 1 /\ Len(updResponses) = 1

(***************************************************************************)
(* The selection of the asset selector (js/asset-selector.js).             *)
(***************************************************************************)
MaxSelOps == 3
MaxPicked == 2

\* lines 234-249: normalizeAsset of the selector, with the fields the
\* selection is told apart by
selectorNormalizeAsset(asset) ==
    [ id |-> Or(Get(asset, "id"), Get(asset, "repo:assetId")),
      name |-> Or(Get(asset, "name"), Get(asset, "repo:name")),
      raw |-> asset ]

\* lines 225-227: if (this.callbacks.onSelectionChange) ...
notify(registered, calls, selection) ==
    IF registered THEN Append(calls, selection) ELSE calls

\* line 295: this.selectedAssets.filter(a => a.id !== assetId)
filterOut(selected, assetId) == SelectSeq(selected, LAMBDA a : a.id # assetId)

\* the assets the Adobe selector hands over
PickedAssets ==
    { Obj([id |-> Str(<<"1">>), name |-> Str(<<"a.jpg">>)]),
      Obj(("repo:assetId" :> Str(<<"2">>)) @@ ("repo:name" :> Str(<<"b.png">>))),
      Obj([id |-> Str(<<"1">>), name |-> Str(<<"copy.jpg">>)]) }
AssetIds == {Str(<<"1">>), Str(<<"2">>), Str(<<"3">>)}

besidesSel == <<earlierVars, netVars, demoVars, cfgVars, updVars, fileVars>>

InitSel ==
    /\ selSelected = <<>>
    /\ selCallback \in BOOLEAN
    /\ selCalls = <<>>
    /\ selBefore = <<>>
    /\ selLastOp = Undef
    /\ selSteps = 0
    /\ EarlierIdle
    /\ NetIdle
    /\ DemoIdle
    /\ CfgIdle
    /\ UpdIdle
    /\ FileIdle

Operation(op, arg) ==
    /\ selSteps < MaxSelOps
    /\ selSteps' = selSteps + 1
    /\ selBefore' = selSelected
    /\ selLastOp' = [t |-> op, arg |-> arg, listening |-> selCallback]

\* lines 317-319
OnSelectionChange ==
    /\ ~selCallback
    /\ selCallback' = TRUE
    /\ UNCHANGED <<selSelected, selCalls, selBefore, selLastOp, selSteps, besidesSel>>

\* lines 219-229
HandleAssetSelection ==
    \E assets \in SeqsUpTo(PickedAssets, MaxPicked) :
        /\ Operation("handleAssetSelection", List(assets))
        /\ selSelected' = [i \in 1..Len(assets) |-> selectorNormalizeAsset(assets[i])]
        /\ selCalls' = notify(selCallback, selCalls, selSelected')
        /\ UNCHANGED <<selCallback, besidesSel>>

\* lines 294-297
RemoveAsset ==
    \E assetId \in AssetIds :
        /\ Operation("removeAsset", assetId)
        /\ selSelected' = filterOut(selSelected, assetId)
        /\ UNCHANGED <<selCallback, selCalls, besidesSel>>

\* lines 302-305
ClearSelection ==
    /\ Operation("clearSelection", Undef)
    /\ selSelected' = <<>>
    /\ UNCHANGED <<selCallback, selCalls, besidesSel>>

NextSel ==
    \/ OnSelectionChange
    \/ HandleAssetSelection
    \/ RemoveAsset
    \/ ClearSelection

SpecSel == InitSel /\ [][NextSel]_vars

ChangedSelection == selLastOp # Undef /\ selSelected # selBefore
LastCallGaveSelection == selCalls # <<>> /\ selCalls[Len(selCalls)] = selSelected

\* after removeAsset(id) no selected asset has that id and the others are
\* kept in their order; after clearSelection the selection is empty
RemovalRight ==
    /\ selLastOp.t = "removeAsset" =>
          /\ \A i \in 1..Len(selSelected) : selSelected[i].id # selLastOp.arg
          /\ selSelected = SelectSeq(selBefore, LAMBDA a : a.id # selLastOp.arg)
    /\ selLastOp.t = "clearSelection" => selSelected = <<>>

(* C29: the callback registered with onSelectionChange is called with the  *)
(* current selection after every operation that changes the selected       *)
(* assets (handleAssetSelection, removeAsset, clearSelection); after       *)
(* removeAsset(id) no selected asset has that id and the other selected    *)
(* assets are kept in their order, and after clearSelection the selection  *)
(* is empty.                                                               *)
C29_CallbackAfterEveryChange ==
    selLastOp # Undef =>
        /\ selLastOp.listening /\ ChangedSelection => LastCallGaveSelection
        /\ RemovalRight

(***************************************************************************)
(* The static file handler of the development server (server/server.js).   *)
(* A path is a sequence of segments, a segment a sequence of tokens, so    *)
(* that the path text and its prefixes can be told: the directory name     *)
(* src-backup is <<"src", "-backup">>.                                     *)
(***************************************************************************)
MaxSegments == 3

DotDot == <<"..">>
\* line 15: ROOT_DIR, path.join(__dirname, '..')
RootDir == << <<"app">>, <<"src">> >>

\* the text of an absolute path
RECURSIVE PathText(_)
PathText(segments) ==
    IF segments = <<>> THEN <<>>
    ELSE <<"/">> \o Head(segments) \o PathText(Tail(segments))

\* path.normalize on the segments of an absolute path: '..' steps out of
\* the directory before it, and stays at the top
RECURSIVE normalizeSegments(_, _)
normalizeSegments(done, rest) ==
    IF rest = <<>> THEN done
    ELSE IF Head(rest) = DotDot
    THEN normalizeSegments(IF done = <<>> THEN done ELSE SubSeq(done, 1, Len(done) - 1),
                           Tail(rest))
    ELSE normalizeSegments(Append(done, Head(rest)), Tail(rest))

\* path.join(a, b)
pathJoin(a, b) == normalizeSegments(<<>>, a \o b)

\* line 107: filePath.startsWith(ROOT_DIR)
passesSecurityCheck(filePath) == StartsWith(PathText(filePath), PathText(RootDir))

\* the files on the disk of the server
DiskFiles ==
    { << <<"app">>, <<"src">>, <<"index.html">> >>,
      << <<"app">>, <<"src">>, <<"js">>, <<"index.html">> >>,
      << <<"app">>, <<"src", "-backup">>, <<"index.html">> >>,
      << <<"app">>, <<"index.html">> >>,
      << <<"etc">>, <<"index.html">> >> }
IsFile(p) == p \in DiskFiles
IsDirectory(p) == \E f \in DiskFiles : Len(f) > Len(p) /\ SubSeq(f, 1, Len(p)) = p

\* lines 114-128 and serveFile (985-1004): the file served for filePath, if
\* there is one
servedFile(filePath) ==
    IF IsDirectory(filePath)
    THEN IF IsFile(pathJoin(filePath, << <<"index.html">> >>))
         THEN [status |-> 200, file |-> pathJoin(filePath, << <<"index.html">> >>)]
         ELSE [status |-> 404, file |-> <<>>]
    ELSE IF IsFile(filePath) THEN [status |-> 200, file |-> filePath]
    ELSE [status |-> 404, file |-> <<>>]

\* the segments a request path is made of
UrlSegments == {DotDot, <<"js">>, <<"index.html">>, <<"src", "-backup">>, <<"etc">>, <<"src">>}

besidesFile == <<earlierVars, netVars, demoVars, cfgVars, updVars, selVars>>

InitFile ==
    /\ fileRequest \in SeqsUpTo(UrlSegments, MaxSegments)
    /\ filePhase = "idle"
    /\ fileResolved = <<>>
    /\ fileResponse = Undef
    /\ EarlierIdle
    /\ NetIdle
    /\ DemoIdle
    /\ CfgIdle
    /\ UpdIdle
    /\ SelIdle

\* lines 98-111: the path is resolved and checked
ResolvePath ==
    /\ filePhase = "idle"
    /\ LET urlPath == IF fileRequest = <<>> THEN << <<"index.html">> >> ELSE fileRequest
           filePath == pathJoin(RootDir, urlPath)
       IN /\ fileResolved' = filePath
          /\ IF ~passesSecurityCheck(filePath)
             THEN /\ fileResponse' = [status |-> 403, file |-> <<>>]
                  /\ filePhase' = "done"
             ELSE /\ filePhase' = "stat"
                  /\ UNCHANGED fileResponse
    /\ UNCHANGED <<fileRequest, besidesFile>>

\* lines 114-128: fs.stat has answered, and the file is read
StatAnswers ==
    /\ filePhase = "stat"
    /\ fileResponse' = servedFile(fileResolved)
    /\ filePhase' = "done"
    /\ UNCHANGED <<fileRequest, fileResolved, besidesFile>>

NextFile == ResolvePath \/ StatAnswers

SpecFile == InitFile /\ [][NextFile]_vars

\* a path that lies inside the root directory
InsideRoot(p) == Len(p) >= Len(RootDir) /\ SubSeq(p, 1, Len(RootDir)) = RootDir

(* C30: the static file handler never serves a file outside the server's   *)
(* root directory: for every request path, paths with '..' segments and    *)
(* paths that resolve to a sibling directory whose name starts with the    *)
(* root directory's name included, the response is 403 unless the resolved *)
(* file lies inside the root directory.                                    *)
C30_NothingOutsideRoot ==
    filePhase = "done" =>
        /\ ~InsideRoot(fileResolved) => fileResponse.status = 403
        /\ fileResponse.status = 200 => InsideRoot(fileResponse.file)

====
